---- MODULE Spec2Model ----
(***************************************************************************)
(* A model of the go-ssz codec: the Marshal / Unmarshal facade of ssz.go   *)
(* and the reflective codecs of package types (struct, basic and composite *)
(* slices and arrays).                                                     *)
(*                                                                         *)
(* A Go type (reflect.Type) is a record [k, n, e, f]: kind, array length   *)
(* or scalar width in bytes, element type (a sequence of 0 or 1 types) and *)
(* struct fields.  The data of a Go value is a record [nil, s, c]: the nil *)
(* flag of a slice or pointer, the number of a scalar, and the children    *)
(* (elements, fields or the pointee).  A reflect.Value is [t, d]: its own  *)
(* (declared) type and its data.  A []byte is [a, lo, hi]: the backing     *)
(* array and the window on it, so that len = hi - lo and cap = Len(a) - lo.*)
(***************************************************************************)
EXTENDS Integers, Sequences, FiniteSets, TLC

BytesPerLengthOffset == 4

\* With(v, F) is F(v): the value v under the name the LAMBDA gives it.
With(v, F(_)) == F(v)

\* ------------------------------------------------------------------ types

Ty(k, n, e, f) == [k |-> k, n |-> n, e |-> e, f |-> f]
BoolT == Ty("bool", 1, <<>>, <<>>)
UintT(w) == Ty("uint", w, <<>>, <<>>)
Uint8 == UintT(1)
Uint16 == UintT(2)
Uint32 == UintT(4)
Uint64 == UintT(8)
ComplexT == Ty("complex", 16, <<>>, <<>>)
SliceOf(t) == Ty("slice", 0, <<t>>, <<>>)
ArrayOf(n, t) == Ty("array", n, <<t>>, <<>>)
PtrTo(t) == Ty("ptr", 0, <<t>>, <<>>)
StructOf(fs) == Ty("struct", 0, <<>>, fs)
Elem(t) == t.e[1]

\* A struct field: its name, its declared type and its ssz-size tag, a sequence
\* of items: a number n >= 0, TagUnbounded for "?", TagMalformed for any text
\* strconv.ParseUint rejects.  <<>> is the absent tag.
TagUnbounded == -1
TagMalformed == -2
\* Its ssz-max tag is max: <<>> when absent, else <<n>>, the parsed number, or
\* <<TagMalformed>>.
Fld(name, t) == [name |-> name, t |-> t, size |-> <<>>, max |-> <<>>]
FldSized(name, t, size) == [name |-> name, t |-> t, size |-> size, max |-> <<>>]
FldMax(name, t, max) == [name |-> name, t |-> t, size |-> <<>>, max |-> <<max>>]

\* strings.Contains(name, "XXX_") over the field names the model uses.
SkippedNames == {"XXX_unrecognized", "XXX_sizecache", "XXX_NoUnkeyedLiteral"}
IsSkipped(name) == name \in SkippedNames

\* ------------------------------------------------------------------ values

Val(nil, s, c) == [nil |-> nil, s |-> s, c |-> c]
Scalar(x) == Val(FALSE, x, <<>>)
NilV == Val(TRUE, 0, <<>>)
Agg(c) == Val(FALSE, 0, c)
RV(t, d) == [t |-> t, d |-> d]
VLen(rv) == Len(rv.d.c)
VIndex(rv, i) == RV(Elem(rv.t), rv.d.c[i + 1])
VField(rv, i) == RV(rv.t.f[i + 1].t, rv.d.c[i + 1])
VElem(rv) == RV(Elem(rv.t), rv.d.c[1])

\* The zero value of a type (reflect.New(t).Elem()).
RECURSIVE Zero(_)
Zero(t) ==
    CASE t.k = "slice" -> NilV
      [] t.k = "ptr" -> NilV
      [] t.k = "array" -> Agg([i \in 1..t.n |-> Zero(Elem(t))])
      [] t.k = "struct" -> Agg([i \in 1..Len(t.f) |-> Zero(t.f[i].t)])
      [] OTHER -> Scalar(0)

\* ------------------------------------------------------------- field tags

ParseOK(size) == \A i \in 1..Len(size) : size[i] # TagMalformed
parseSSZFieldTags(field) ==
    [sizes |-> [i \in 1..Len(field.size) |->
                   IF field.size[i] = TagUnbounded THEN 0 ELSE field.size[i]],
     exists |-> field.size # <<>> /\ ParseOK(field.size),
     err |-> IF field.size # <<>> /\ ~ParseOK(field.size) THEN "BadFieldDirective" ELSE ""]

RECURSIVE InnerElem(_, _)
InnerElem(t, depth) == IF depth = 0 THEN t ELSE InnerElem(Elem(t), depth - 1)

\* The second loop of inferFieldTypeFromSizeTags making an array of every size,
\* of the size 0 of "?" too.
RECURSIVE WrapSizes_AlwaysArray(_, _, _)
WrapSizes_AlwaysArray(t, sizes, i) ==
    IF i = 0 THEN t ELSE WrapSizes_AlwaysArray(ArrayOf(sizes[i], t), sizes, i - 1)

RECURSIVE WrapSizes(_, _, _)
WrapSizes(t, sizes, i) ==
    IF i = 0 THEN t
    ELSE WrapSizes(IF sizes[i] = 0 THEN SliceOf(t) ELSE ArrayOf(sizes[i], t), sizes, i - 1)

inferFieldTypeFromSizeTags(field, sizes) ==
    WrapSizes(InnerElem(field.t, Len(sizes)), sizes, Len(sizes))

\* determineFieldType: [t, err].
determineFieldType(field) ==
    With(parseSSZFieldTags(field), LAMBDA p :
    IF p.err # "" THEN [t |-> field.t, err |-> p.err]
    ELSE IF p.exists THEN [t |-> inferFieldTypeFromSizeTags(field, p.sizes), err |-> ""]
    ELSE [t |-> field.t, err |-> ""])

\* determineFieldCapacity: the number of the ssz-max tag, 0 without one or when
\* it does not parse.
determineFieldCapacity(field) ==
    IF field.max = <<>> THEN 0
    ELSE IF field.max[1] < 0 THEN 0
    ELSE field.max[1]

\* ------------------------------------------------------ schema introspector

isBasicType(t) == t.k \in {"bool", "uint"}

RECURSIVE isVariableSizeType(_)
isVariableSizeType(t) ==
    CASE t.k = "slice" -> TRUE
      [] t.k \in {"array", "ptr"} -> isVariableSizeType(Elem(t))
      [] t.k = "struct" ->
            \E i \in 1..Len(t.f) :
                /\ ~IsSkipped(t.f[i].name)
                /\ With(determineFieldType(t.f[i]), LAMBDA ft :
                        ft.err = "" /\ isVariableSizeType(ft.t))
      [] OTHER -> FALSE

RECURSIVE SumTo(_, _)
SumTo(f, n) == IF n = 0 THEN 0 ELSE f[n] + SumTo(f, n - 1)

\* fixed_size(schema): defined for fixed-size schemas, a function of the schema.
RECURSIVE FixedSize(_)
FixedSize(t) ==
    CASE t.k = "bool" -> 1
      [] t.k = "uint" -> t.n
      [] t.k = "array" -> t.n * FixedSize(Elem(t))
      [] t.k = "ptr" -> FixedSize(Elem(t))
      [] t.k = "struct" ->
            SumTo([i \in 1..Len(t.f) |->
                     With(determineFieldType(t.f[i]), LAMBDA ft :
                          IF IsSkipped(t.f[i].name) \/ ft.err # "" THEN 0
                          ELSE FixedSize(ft.t))], Len(t.f))
      [] OTHER -> 0

determineFixedSize(rv, typ) == FixedSize(typ)

\* schema_size(value) of a value rv seen as type typ; a nil pointer counts as the
\* zero value of its pointee.
RECURSIVE SizeOf(_, _)
SizeOf(rv, typ) ==
    IF ~isVariableSizeType(typ) THEN determineFixedSize(rv, typ)
    ELSE CASE typ.k = "ptr" ->
                SizeOf(IF rv.d.nil THEN RV(Elem(typ), Zero(Elem(typ))) ELSE VElem(rv), Elem(typ))
           [] typ.k \in {"slice", "array"} ->
                SumTo([i \in 1..VLen(rv) |->
                         SizeOf(VIndex(rv, i - 1), Elem(typ))
                         + (IF isVariableSizeType(Elem(typ)) THEN BytesPerLengthOffset ELSE 0)],
                      VLen(rv))
           [] typ.k = "struct" ->
                SumTo([i \in 1..Len(typ.f) |->
                         With(determineFieldType(typ.f[i]), LAMBDA ft :
                              IF IsSkipped(typ.f[i].name) \/ ft.err # "" THEN 0
                              ELSE SizeOf(VField(rv, i - 1), ft.t)
                                   + (IF isVariableSizeType(ft.t) THEN BytesPerLengthOffset
                                      ELSE 0))],
                      Len(typ.f))
           [] OTHER -> 0

DetermineSize(rv) == SizeOf(rv, rv.t)

\* SSZFactory: the codec of a type, or "unsupported".
RECURSIVE SSZFactory(_)
SSZFactory(typ) ==
    CASE isBasicType(typ) -> "basic"
      [] typ.k \in {"slice", "array"} ->
            With(isVariableSizeType(Elem(typ)), LAMBDA variable :
                 IF typ.k = "slice"
                 THEN IF variable THEN "compositeSlice" ELSE "basicSlice"
                 ELSE IF variable THEN "compositeArray" ELSE "basicArray")
      [] typ.k = "struct" -> "struct"
      [] typ.k = "ptr" -> SSZFactory(Elem(typ))
      [] OTHER -> "unsupported"

\* ------------------------------------------------------------------ bytes

Pow256(i) == CASE i = 0 -> 1 [] i = 1 -> 256 [] i = 2 -> 65536 [] i = 3 -> 16777216
\* Byte i (0-based) of the little-endian form of x; the numbers of the model are
\* below 2^31, so bytes 4.. are 0.
LEByte(x, i) == IF i > 3 THEN 0 ELSE (x \div Pow256(i)) % 256
LEBytes(x, w) == [i \in 1..w |-> LEByte(x, i - 1)]
\* binary.LittleEndian.UintN of the bytes bs.
RECURSIVE LEValue(_, _)
LEValue(bs, n) ==
    IF n = 0 THEN 0
    ELSE (IF bs[n] = 0 THEN 0 ELSE bs[n] * Pow256(n - 1)) + LEValue(bs, n - 1)

Zeros(n) == [i \in 1..n |-> 0]

\* The buffer of Marshal: make([]byte, n).  Beside its bytes it keeps, for the
\* properties of the writes, the writes made so far (log) and the structs being
\* encoded (frames): where each starts, where its fixed part ends, and which of
\* its fields is being written into which region.
Buffer(n) == [bytes |-> Zeros(n), log |-> <<>>, frames |-> <<>>]
Written(at, n, frames) == [at |-> at, n |-> n, frames |-> frames]
\* buf[start:start+n] out of range: Go panics before a byte is written.
OutOfRange(buf, start, n) == [buf EXCEPT !.log = Append(@, Written(start, n, buf.frames))]
\* copy(buf[start:start+len(bs)], bs)
WriteAt(buf, start, bs) ==
    [buf EXCEPT
        !.bytes = [i \in 1..Len(buf.bytes) |->
                     IF i > start /\ i <= start + Len(bs) THEN bs[i - start] ELSE buf.bytes[i]],
        !.log = Append(@, Written(start, Len(bs), buf.frames))]
\* structSSZ.Marshal begins its second loop: the fixed part is [start, fixedEnd).
Push(buf, start, fixedEnd) ==
    [buf EXCEPT !.frames = Append(@, [start |-> start, fixedEnd |-> fixedEnd,
                                      region |-> "", child |-> 0])]
\* The loop turns to the field child: its bytes in the fixed part ("fixed"), its
\* bytes behind the fixed part ("variable") or its offset ("offset").
Enter(buf, region, child) ==
    [buf EXCEPT !.frames[Len(buf.frames)] = [@ EXCEPT !.region = region, !.child = child]]
\* The loop is over with the fixed part written up to fixedIndex.
Leave(buf, fixedIndex) ==
    [Enter(buf, "end", 0) EXCEPT
        !.log = Append(@, Written(fixedIndex, 0, Enter(buf, "end", 0).frames)),
        !.frames = SubSeq(buf.frames, 1, Len(buf.frames) - 1)]

\* ---------------------------------------------------------------- Marshal
\* A codec's Marshal returns [buf, idx, err]: the buffer as written so far, the
\* returned cursor and the error ("" is nil, "panic" a run-time panic).

MR(buf, idx, err) == [buf |-> buf, idx |-> idx, err |-> err]

\* The primitive codec: bool and unsigned integers, little-endian.
basicMarshal(rv, typ, buf, startOffset) ==
    IF typ.k \notin {"bool", "uint"} THEN MR(buf, 0, "UnsupportedKind")
    ELSE IF startOffset + typ.n > Len(buf.bytes)
         THEN MR(OutOfRange(buf, startOffset, typ.n), 0, "panic")
    ELSE MR(WriteAt(buf, startOffset, LEBytes(rv.d.s, typ.n)), startOffset + typ.n, "")

\* The offset left unwritten: its four bytes stay 0.
PutOffset_Unwritten(buf, fixedIndex, value) == MR(buf, 0, "")

\* Write the offset into width bytes: the conversion to the unsigned integer of
\* that width keeps the low bytes of the value, and nothing is reported.
PutOffsetOfWidth(buf, fixedIndex, value, width) ==
    IF fixedIndex + width > Len(buf.bytes) THEN MR(OutOfRange(buf, fixedIndex, width), 0, "panic")
    ELSE MR(WriteAt(buf, fixedIndex, LEBytes(value, width)), 0, "")

\* Write the offset (binary.LittleEndian.PutUint32 and copy into buf).
PutOffset(buf, fixedIndex, value) ==
    PutOffsetOfWidth(buf, fixedIndex, value, BytesPerLengthOffset)

\* The offset of a struct field written as the position in the buffer.
structOffsetValue_Absolute(currentOffsetIndex, startOffset) == currentOffsetIndex

\* The offset structSSZ.Marshal writes for a variable-size field.
structOffsetValue(currentOffsetIndex, startOffset) == currentOffsetIndex - startOffset

\* The offset of an element written as the position in the buffer.
elementOffsetValue_Absolute(currentOffsetIndex, startOffset) == currentOffsetIndex

\* The offset the composite codecs write for a variable-size element.
elementOffsetValue(currentOffsetIndex, startOffset) == currentOffsetIndex - startOffset

RECURSIVE MarshalT(_, _, _, _)
RECURSIVE basicSeqLoop(_, _, _, _, _)
RECURSIVE compositeSeqLoop(_, _, _, _, _, _, _)
RECURSIVE structMarshal(_, _, _, _)
RECURSIVE structMarshalLoop(_, _, _, _, _, _, _)

\* The element loop of basicSliceSSZ.Marshal, basicArraySSZ.Marshal and of the
\* fixed-element branch of the composite codecs.
basicSeqLoop(rv, typ, buf, index, i) ==
    IF i >= VLen(rv) THEN MR(buf, index, "")
    ELSE With(MarshalT(VIndex(rv, i), Elem(typ), buf, index), LAMBDA r :
         IF r.err # "" THEN MR(r.buf, 0, r.err)
         ELSE basicSeqLoop(rv, typ, r.buf, r.idx, i + 1))

\* basicSliceSSZ.Marshal returning 0, not the index, for a nil slice.
basicSliceMarshal_NilReturnsZero(rv, typ, buf, startOffset) ==
    IF rv.d.nil THEN MR(buf, 0, "")
    ELSE IF VLen(rv) = 0 THEN MR(buf, startOffset, "")
    ELSE IF SSZFactory(Elem(typ)) = "unsupported" THEN MR(buf, 0, "UnsupportedKind")
    ELSE basicSeqLoop(rv, typ, buf, startOffset, 0)

basicSliceMarshal(rv, typ, buf, startOffset) ==
    IF VLen(rv) = 0 THEN MR(buf, startOffset, "")
    ELSE IF SSZFactory(Elem(typ)) = "unsupported" THEN MR(buf, 0, "UnsupportedKind")
    ELSE basicSeqLoop(rv, typ, buf, startOffset, 0)

basicArrayMarshal(rv, typ, buf, startOffset) ==
    IF VLen(rv) = 0 THEN MR(buf, startOffset, "")
    ELSE IF SSZFactory(Elem(typ)) = "unsupported" THEN MR(buf, 0, "UnsupportedKind")
    ELSE basicSeqLoop(rv, typ, buf, startOffset, 0)

\* The offset loop of the composite codecs.
compositeSeqLoop(rv, typ, buf, startOffset, fixedIndex, currentOffsetIndex, i) ==
    IF i >= VLen(rv) THEN MR(buf, currentOffsetIndex, "")
    ELSE With(MarshalT(VIndex(rv, i), Elem(typ), buf, currentOffsetIndex), LAMBDA r :
         IF r.err # "" THEN MR(r.buf, 0, r.err)
         ELSE With(PutOffset(r.buf, fixedIndex,
                             elementOffsetValue(currentOffsetIndex, startOffset)), LAMBDA w :
              IF w.err # "" THEN w
              ELSE compositeSeqLoop(rv, typ, w.buf, startOffset,
                                    fixedIndex + BytesPerLengthOffset, r.idx, i + 1)))

compositeSliceMarshal(rv, typ, buf, startOffset) ==
    IF VLen(rv) = 0 THEN MR(buf, startOffset, "")
    ELSE IF SSZFactory(Elem(typ)) = "unsupported" THEN MR(buf, 0, "UnsupportedKind")
    ELSE IF ~isVariableSizeType(Elem(typ)) THEN basicSeqLoop(rv, typ, buf, startOffset, 0)
    ELSE compositeSeqLoop(rv, typ, buf, startOffset, startOffset,
                          startOffset + VLen(rv) * BytesPerLengthOffset, 0)

compositeArrayMarshal(rv, typ, buf, startOffset) ==
    IF VLen(rv) = 0 THEN MR(buf, startOffset, "")
    ELSE IF SSZFactory(Elem(typ)) = "unsupported" THEN MR(buf, 0, "UnsupportedKind")
    ELSE IF ~isVariableSizeType(Elem(typ)) THEN basicSeqLoop(rv, typ, buf, startOffset, 0)
    ELSE compositeSeqLoop(rv, typ, buf, startOffset, startOffset,
                          startOffset + VLen(rv) * BytesPerLengthOffset, 0)

\* The first loop of structSSZ.Marshal: [n, err], the length of the fixed prefix.
RECURSIVE structFixedLength(_, _, _)
structFixedLength(rv, typ, i) ==
    IF i = 0 THEN [n |-> 0, err |-> ""]
    ELSE With(structFixedLength(rv, typ, i - 1), LAMBDA before :
         With(determineFieldType(typ.f[i]), LAMBDA ft :
         IF before.err # "" THEN before
         ELSE IF ft.err # "" THEN [n |-> 0, err |-> ft.err]
         ELSE [n |-> before.n + (IF isVariableSizeType(ft.t) THEN BytesPerLengthOffset
                                 ELSE determineFixedSize(VField(rv, i - 1), ft.t)),
               err |-> ""]))

\* structSSZ.Marshal returning the end of the fixed part, not of the data.
structMarshalReturn_FixedIndex(buf, fixedIndex, currentOffsetIndex) == MR(buf, fixedIndex, "")

\* What structSSZ.Marshal returns after its last field.
structMarshalReturn(buf, fixedIndex, currentOffsetIndex) == MR(buf, currentOffsetIndex, "")

\* The second loop of structSSZ.Marshal, at field i (0-based).
structMarshalLoop(rv, typ, buf, startOffset, fixedIndex, currentOffsetIndex, i) ==
    IF i >= Len(typ.f)
    THEN structMarshalReturn(Leave(buf, fixedIndex), fixedIndex, currentOffsetIndex)
    ELSE With(determineFieldType(typ.f[i + 1]), LAMBDA ft :
         IF ft.err # "" THEN MR(buf, 0, ft.err)
         ELSE IF SSZFactory(ft.t) = "unsupported" THEN MR(buf, 0, "UnsupportedKind")
         ELSE IF ~isVariableSizeType(ft.t)
         THEN With(MarshalT(VField(rv, i), ft.t, Enter(buf, "fixed", i), fixedIndex), LAMBDA r :
              IF r.err # "" THEN MR(r.buf, 0, r.err)
              ELSE structMarshalLoop(rv, typ, r.buf, startOffset, r.idx, currentOffsetIndex, i + 1))
         ELSE With(MarshalT(VField(rv, i), ft.t, Enter(buf, "variable", i), currentOffsetIndex),
                   LAMBDA r :
              IF r.err # "" THEN MR(r.buf, 0, r.err)
              ELSE With(PutOffset(Enter(r.buf, "offset", i), fixedIndex,
                                  structOffsetValue(currentOffsetIndex, startOffset)), LAMBDA w :
                   IF w.err # "" THEN w
                   ELSE structMarshalLoop(rv, typ, w.buf, startOffset,
                                          fixedIndex + BytesPerLengthOffset, r.idx, i + 1))))

\* structSSZ.Marshal writing nothing for a nil pointer.
structMarshal_NilSkipped(rv, typ, buf, startOffset) ==
    IF typ.k = "ptr"
    THEN IF rv.d.nil THEN MR(buf, startOffset, "")
         ELSE structMarshal(VElem(rv), Elem(typ), buf, startOffset)
    ELSE With(structFixedLength(rv, typ, Len(typ.f)), LAMBDA fl :
         IF fl.err # "" THEN MR(buf, 0, fl.err)
         ELSE structMarshalLoop(rv, typ, Push(buf, startOffset, startOffset + fl.n),
                                startOffset, startOffset, startOffset + fl.n, 0))

structMarshal(rv, typ, buf, startOffset) ==
    IF typ.k = "ptr"
    THEN IF rv.d.nil
         THEN structMarshal(RV(Elem(typ), Zero(Elem(typ))), Elem(typ), buf, startOffset)
         ELSE structMarshal(VElem(rv), Elem(typ), buf, startOffset)
    ELSE With(structFixedLength(rv, typ, Len(typ.f)), LAMBDA fl :
         IF fl.err # "" THEN MR(buf, 0, fl.err)
         ELSE structMarshalLoop(rv, typ, Push(buf, startOffset, startOffset + fl.n),
                                startOffset, startOffset, startOffset + fl.n, 0))

\* factory.Marshal for the codec SSZFactory(typ) names.  Only the struct codec
\* takes a pointer; the others call Len or Uint on it, which panics.
MarshalT(rv, typ, buf, startOffset) ==
    With(SSZFactory(typ), LAMBDA fac :
    CASE fac = "unsupported" -> MR(buf, 0, "UnsupportedKind")
      [] fac = "struct" -> structMarshal(rv, typ, buf, startOffset)
      [] typ.k = "ptr" -> MR(buf, 0, "panic")
      [] fac = "basic" -> basicMarshal(rv, typ, buf, startOffset)
      [] fac = "basicSlice" -> basicSliceMarshal(rv, typ, buf, startOffset)
      [] fac = "basicArray" -> basicArrayMarshal(rv, typ, buf, startOffset)
      [] fac = "compositeSlice" -> compositeSliceMarshal(rv, typ, buf, startOffset)
      [] OTHER -> compositeArrayMarshal(rv, typ, buf, startOffset))

\* -------------------------------------------------------------- byte slices

Sl(a, lo, hi) == [a |-> a, lo |-> lo, hi |-> hi]
WholeSlice(bs) == Sl(bs, 0, Len(bs))
SLen(s) == s.hi - s.lo
SCap(s) == Len(s.a) - s.lo
\* s[i:j] is legal when 0 <= i <= j <= cap(s); otherwise Go panics.
CanSub(s, i, j) == 0 <= i /\ i <= j /\ j <= SCap(s)
Sub(s, i, j) == Sl(s.a, s.lo + i, s.lo + j)
\* s[i], legal when i < len(s).
At(s, i) == s.a[s.lo + i + 1]
SBytes(s) == [i \in 1..SLen(s) |-> s.a[s.lo + i]]
Max(a, b) == IF a >= b THEN a ELSE b

\* -------------------------------------------------------------- Unmarshal
\* A codec's Unmarshal returns [d, idx, err, hw]: the destination's data after
\* the call, the returned cursor, the error, and the end of the last byte of the
\* backing array the call read (0 when it read none).

UR(d, idx, err, hw) == [d |-> d, idx |-> idx, err |-> err, hw |-> hw]

\* The primitive codec.  Fewer bytes than the width is ShortInput; a boolean byte
\* other than 0 and 1 is InvalidBool.
basicUnmarshal(rv, typ, input, startOffset) ==
    IF typ.k \notin {"bool", "uint"} THEN UR(rv.d, 0, "UnsupportedKind", 0)
    ELSE IF startOffset + typ.n > SLen(input) THEN UR(rv.d, 0, "ShortInput", 0)
    ELSE LET x == LEValue([i \in 1..typ.n |-> At(input, startOffset + i - 1)], typ.n)
             end == input.lo + startOffset + typ.n
         IN IF typ.k = "bool" /\ x \notin {0, 1} THEN UR(rv.d, 0, "InvalidBool", end)
            ELSE UR(Scalar(x), startOffset + typ.n, "", end)

\* val.Set(reflect.New(typ)) on a nil pointer.
instantiateConcreteTypeForElement(d, typ) == IF d.nil THEN Agg(<<Zero(typ)>>) ELSE d

\* reflect.MakeSlice(typ, length, length); reflect.Copy(newVal, val); val.Set(newVal)
growConcreteSliceType(d, typ, length) ==
    Agg([i \in 1..length |-> IF i <= Len(d.c) THEN d.c[i] ELSE Zero(Elem(typ))])

\* A fresh slice of slices with the lengths sizes[k..].
RECURSIVE growSliceFromSizeTags(_, _, _, _)
growSliceFromSizeTags(t, d, sizes, k) ==
    IF k > Len(sizes) THEN d
    ELSE Agg([i \in 1..sizes[k] |->
                 growSliceFromSizeTags(Elem(t), Zero(Elem(t)), sizes, k + 1)])

\* reflect.Copy(dst, src): the first min(len) elements of src over those of dst.
ReflectCopy(dst, src) ==
    Agg([i \in 1..Len(dst.c) |-> IF i <= Len(src.c) THEN src.c[i] ELSE dst.c[i]])

\* The dimensions of a type under its first: 0 for a slice, the length of an array.
RECURSIVE InnerSizes(_)
InnerSizes(t) ==
    IF t.k = "slice" THEN <<0>> \o InnerSizes(Elem(t))
    ELSE IF t.k = "array" THEN <<t.n>> \o InnerSizes(Elem(t))
    ELSE <<>>

\* input[at:at+4] read as a little-endian uint32: [ok, v].
ReadOffset(input, at) ==
    IF ~CanSub(input, at, at + BytesPerLengthOffset) THEN [ok |-> FALSE, v |-> 0]
    ELSE [ok |-> TRUE,
          v |-> LEValue([i \in 1..BytesPerLengthOffset |-> input.a[input.lo + at + i]],
                        BytesPerLengthOffset)]

RECURSIVE UnmarshalWith(_, _, _, _, _)
RECURSIVE structUnmarshal(_, _, _, _)

\* The element at index i of the destination, instantiated when it is a nil
\* pointer (the loops of the array codecs).
InstantiatedElement(rv, typ, i) ==
    IF Elem(rv.t).k = "ptr"
    THEN instantiateConcreteTypeForElement(rv.d.c[i + 1], Elem(Elem(typ)))
    ELSE rv.d.c[i + 1]

\* The data d with child i (0-based) replaced by x.
SetIndex(d, i, x) == Agg([d.c EXCEPT ![i + 1] = x])

\* basicArraySSZ.Unmarshal, from element i with the cursor at index.
RECURSIVE basicArrayLoop(_, _, _, _, _, _)
basicArrayLoop(rv, typ, input, index, i, hw) ==
    IF i >= VLen(rv) THEN UR(rv.d, index, "", hw)
    ELSE With(InstantiatedElement(rv, typ, i), LAMBDA ed :
         With(IF Elem(rv.t).k = "ptr" THEN SSZFactory(Elem(Elem(typ)))
              ELSE SSZFactory(Elem(typ)), LAMBDA fac :
         IF fac = "unsupported" THEN UR(SetIndex(rv.d, i, ed), 0, "UnsupportedKind", hw)
         ELSE With(UnmarshalWith(fac, RV(Elem(rv.t), ed), Elem(typ), input, index), LAMBDA r :
              IF r.err # "" THEN UR(SetIndex(rv.d, i, r.d), 0, r.err, Max(hw, r.hw))
              ELSE basicArrayLoop(RV(rv.t, SetIndex(rv.d, i, r.d)), typ, input, r.idx, i + 1,
                                  Max(hw, r.hw)))))

basicArrayUnmarshal(rv, typ, input, startOffset) ==
    basicArrayLoop(rv, typ, input, startOffset, 0, 0)

\* The loop of basicSliceSSZ.Unmarshal over elements 1..endOffset-1.
RECURSIVE basicSliceLoop(_, _, _, _, _, _, _, _)
basicSliceLoop(rv, typ, input, fac, index, i, endOffset, hw) ==
    IF i >= endOffset THEN UR(rv.d, index, "", hw)
    ELSE With(IF rv.t = typ THEN growConcreteSliceType(rv.d, rv.t, i + 1) ELSE rv.d, LAMBDA d1 :
         IF i >= Len(d1.c) THEN UR(d1, 0, "panic", hw)
         ELSE With(UnmarshalWith(fac, RV(Elem(rv.t), d1.c[i + 1]), Elem(typ), input, index),
                   LAMBDA r :
              IF r.err # "" THEN UR(SetIndex(d1, i, r.d), 0, r.err, Max(hw, r.hw))
              ELSE basicSliceLoop(RV(rv.t, SetIndex(d1, i, r.d)), typ, input, fac, r.idx, i + 1,
                                  endOffset, Max(hw, r.hw))))

\* The slice of basicSliceSSZ.Unmarshal at the given length: grown from the size
\* tags when the destination's type is not the tagged type, else as it is.
SizedSlice(rv, typ, d, length) ==
    IF rv.t # typ
    THEN ReflectCopy(growSliceFromSizeTags(rv.t, d, <<length>> \o InnerSizes(Elem(typ)), 1), d)
    ELSE d

basicSliceUnmarshal(rv, typ, input, startOffset) ==
    IF SLen(input) = 0 THEN UR(Agg(<<>>), 0, "", 0)
    ELSE With(IF rv.t # typ THEN SizedSlice(rv, typ, rv.d, 1)
              ELSE growConcreteSliceType(rv.d, rv.t, 1), LAMBDA d1 :
         With(SSZFactory(Elem(typ)), LAMBDA fac :
         IF fac = "unsupported" THEN UR(d1, 0, "UnsupportedKind", 0)
         ELSE With(UnmarshalWith(fac, RV(Elem(rv.t), d1.c[1]), Elem(typ), input, startOffset),
                   LAMBDA r :
              With(SetIndex(d1, 0, r.d), LAMBDA d2 :
              With(r.idx - startOffset, LAMBDA elementSize :
              IF r.err # "" THEN UR(d2, 0, r.err, r.hw)
              ELSE IF elementSize = 0 THEN UR(d2, 0, "panic", r.hw)
              ELSE basicSliceLoop(RV(rv.t, SizedSlice(rv, typ, d2, SLen(input) \div elementSize)),
                                  typ, input, fac, r.idx, 1, SLen(input) \div elementSize,
                                  r.hw))))))

\* The offset loop of compositeSliceSSZ.Unmarshal.
RECURSIVE compositeSliceLoop(_, _, _, _, _, _, _, _, _)
compositeSliceLoop(rv, typ, input, startOffset, firstOffset, currentIndex, currentOffset, i, hw) ==
    IF currentIndex >= firstOffset THEN UR(rv.d, currentIndex, "", hw)
    ELSE With(currentIndex + BytesPerLengthOffset, LAMBDA nextIndex :
         With(IF nextIndex = firstOffset THEN [ok |-> TRUE, v |-> SLen(input) - startOffset]
              ELSE ReadOffset(input, nextIndex), LAMBDA rd :
         With(startOffset + rd.v, LAMBDA nextOffset :
         With(IF nextIndex = firstOffset THEN hw
              ELSE Max(hw, input.lo + nextIndex + BytesPerLengthOffset), LAMBDA hw1 :
         IF ~rd.ok THEN UR(rv.d, 0, "panic", hw)
         ELSE IF nextOffset < currentOffset THEN UR(rv.d, currentIndex, "", hw1)
         ELSE With(growConcreteSliceType(rv.d, typ, i + 1), LAMBDA d1 :
              With(SSZFactory(Elem(typ)), LAMBDA fac :
              IF fac = "unsupported" THEN UR(d1, 0, "UnsupportedKind", hw1)
              ELSE IF ~CanSub(input, currentOffset, nextOffset) THEN UR(d1, 0, "panic", hw1)
              ELSE With(UnmarshalWith(fac, RV(Elem(rv.t), d1.c[i + 1]), Elem(typ),
                                      Sub(input, currentOffset, nextOffset), 0), LAMBDA r :
                   IF r.err # "" THEN UR(SetIndex(d1, i, r.d), 0, r.err, Max(hw1, r.hw))
                   ELSE compositeSliceLoop(RV(rv.t, SetIndex(d1, i, r.d)), typ, input,
                                           startOffset, firstOffset, nextIndex, nextOffset,
                                           i + 1, Max(hw1, r.hw)))))))))

compositeSliceUnmarshal(rv, typ, input, startOffset) ==
    IF SLen(input) = 0 THEN UR(Agg(<<>>), 0, "", 0)
    ELSE With(growConcreteSliceType(rv.d, typ, 1), LAMBDA d1 :
         With(ReadOffset(input, startOffset), LAMBDA rd :
         IF ~rd.ok THEN UR(d1, 0, "panic", 0)
         ELSE compositeSliceLoop(RV(rv.t, d1), typ, input, startOffset, startOffset + rd.v,
                                 startOffset, startOffset + rd.v, 0,
                                 input.lo + startOffset + BytesPerLengthOffset)))

\* The offset loop of compositeArraySSZ.Unmarshal.
RECURSIVE compositeArrayLoop(_, _, _, _, _, _, _, _, _)
compositeArrayLoop(rv, typ, input, startOffset, firstOffset, currentIndex, currentOffset, i, hw) ==
    IF currentIndex >= firstOffset THEN UR(rv.d, currentIndex, "", hw)
    ELSE With(currentIndex + BytesPerLengthOffset, LAMBDA nextIndex :
         With(IF nextIndex = firstOffset THEN [ok |-> TRUE, v |-> SLen(input) - startOffset]
              ELSE ReadOffset(input, nextIndex), LAMBDA rd :
         With(IF nextIndex = firstOffset THEN SLen(input) ELSE startOffset + rd.v,
              LAMBDA nextOffset :
         With(IF nextIndex = firstOffset THEN hw
              ELSE Max(hw, input.lo + nextIndex + BytesPerLengthOffset), LAMBDA hw1 :
         IF ~rd.ok THEN UR(rv.d, 0, "panic", hw)
         ELSE IF i >= VLen(rv) THEN UR(rv.d, 0, "panic", hw1)
         ELSE With(InstantiatedElement(rv, typ, i), LAMBDA ed :
              IF ~CanSub(input, currentOffset, nextOffset)
              THEN UR(SetIndex(rv.d, i, ed), 0, "panic", hw1)
              ELSE With(UnmarshalWith(SSZFactory(Elem(typ)), RV(Elem(rv.t), ed), Elem(typ),
                                      Sub(input, currentOffset, nextOffset), 0), LAMBDA r :
                   IF r.err # "" THEN UR(SetIndex(rv.d, i, r.d), 0, r.err, Max(hw1, r.hw))
                   ELSE compositeArrayLoop(RV(rv.t, SetIndex(rv.d, i, r.d)), typ, input,
                                           startOffset, firstOffset, nextIndex, nextOffset,
                                           i + 1, Max(hw1, r.hw))))))))

compositeArrayUnmarshal(rv, typ, input, startOffset) ==
    With(ReadOffset(input, startOffset), LAMBDA rd :
    With(IF rv.t.k = "slice" THEN Agg([i \in 1..typ.n |-> Zero(Elem(rv.t))]) ELSE rv.d,
         LAMBDA d1 :
    IF ~rd.ok THEN UR(rv.d, 0, "panic", 0)
    ELSE IF Len(d1.c) = 0 THEN UR(d1, 0, "panic", 0)
    ELSE IF SSZFactory(Elem(typ)) = "unsupported" THEN UR(d1, 0, "UnsupportedKind", 0)
    ELSE compositeArrayLoop(RV(rv.t, d1), typ, input, startOffset, startOffset + rd.v,
                            startOffset, startOffset + rd.v, 0,
                            input.lo + startOffset + BytesPerLengthOffset)))

\* The number of fields whose name does not hold "XXX_".
structNumFields(typ) == Cardinality({i \in 1..Len(typ.f) : ~IsSkipped(typ.f[i].name)})

\* The destination of a fixed-size field in the first loop of structSSZ.Unmarshal:
\* a nil pointer instantiated, a tagged slice grown to its tags.
structFixedField(field, ft, p, fd0) ==
    With(IF field.t.k = "ptr" THEN instantiateConcreteTypeForElement(fd0, Elem(ft.t)) ELSE fd0,
         LAMBDA fd1 :
         IF p.exists /\ field.t.k = "slice"
         THEN growSliceFromSizeTags(field.t, fd1, p.sizes, 1) ELSE fd1)

\* The first loop of structSSZ.Unmarshal over fields 1..n: [d, sizes, err], where
\* sizes[i] is fixedSizes[i-1], or -1 when the map has no such key.
RECURSIVE structFixedSizes(_, _, _)
structFixedSizes(rv, typ, n) ==
    IF n = 0 THEN [d |-> rv.d, sizes |-> <<>>, err |-> ""]
    ELSE With(structFixedSizes(rv, typ, n - 1), LAMBDA before :
         With(determineFieldType(typ.f[n]), LAMBDA ft :
         With(parseSSZFieldTags(typ.f[n]), LAMBDA p :
         IF before.err # "" THEN before
         ELSE IF ft.err # "" THEN [before EXCEPT !.err = ft.err]
         ELSE IF isVariableSizeType(ft.t) THEN [before EXCEPT !.sizes = Append(@, -1)]
         ELSE [d |-> SetIndex(before.d, n - 1, structFixedField(typ.f[n], ft, p, before.d.c[n])),
               sizes |-> Append(before.sizes,
                                determineFixedSize(IF p.exists THEN RV(ft.t, Zero(ft.t))
                                                   ELSE RV(typ.f[n].t, before.d.c[n]), ft.t)),
               err |-> ""])))

\* The second loop: [offs, hw], the offsets read from the fixed prefix.
RECURSIVE structOffsets(_, _, _, _, _)
structOffsets(input, sizes, startOffset, i, offsetIndexCounter) ==
    IF i > Len(sizes) THEN [offs |-> <<>>, hw |-> 0]
    ELSE IF sizes[i] >= 0
    THEN structOffsets(input, sizes, startOffset, i + 1, offsetIndexCounter + sizes[i])
    ELSE With(structOffsets(input, sizes, startOffset, i + 1,
                            offsetIndexCounter + BytesPerLengthOffset), LAMBDA rest :
         IF offsetIndexCounter + BytesPerLengthOffset > SLen(input) THEN rest
         ELSE [offs |-> <<startOffset + ReadOffset(input, offsetIndexCounter).v>> \o rest.offs,
               hw |-> Max(rest.hw, input.lo + offsetIndexCounter + BytesPerLengthOffset)])

\* The third loop's test for a variable-size field without bytes: its offset is
\* the end of the input.
EmptyVariableField(firstOff, input) == firstOff = SLen(input)

\* One field of the third loop decoded from input[from:to]; then the loop goes on
\* with the cursor at nextIndex and the offset index at nextOffsetIndex.
RECURSIVE structFieldLoop(_, _, _, _, _, _, _, _, _)
structFieldDecode(rv, typ, input, sizes, offsets, i, hw, fac, fd, ft, from, to, nextIndex, nextOffsetIndex) ==
    IF ~CanSub(input, from, to) THEN UR(SetIndex(rv.d, i, fd), 0, "panic", hw)
    ELSE With(UnmarshalWith(fac, RV(typ.f[i + 1].t, fd), ft.t, Sub(input, from, to), 0),
              LAMBDA r :
         IF r.err # "" THEN UR(SetIndex(rv.d, i, r.d), 0, r.err, Max(hw, r.hw))
         ELSE structFieldLoop(RV(rv.t, SetIndex(rv.d, i, r.d)), typ, input, sizes, offsets,
                              nextIndex, nextOffsetIndex, i + 1, Max(hw, r.hw)))

\* The third loop, at field i (0-based).
structFieldLoop(rv, typ, input, sizes, offsets, currentIndex, offsetIndex, i, hw) ==
    IF i >= Len(sizes) THEN UR(rv.d, currentIndex, "", hw)
    ELSE With(determineFieldType(typ.f[i + 1]), LAMBDA ft :
         With(IF typ.f[i + 1].t.k = "ptr"
              THEN instantiateConcreteTypeForElement(rv.d.c[i + 1], Elem(ft.t))
              ELSE rv.d.c[i + 1], LAMBDA fd :
         With(SetIndex(rv.d, i, fd), LAMBDA d1 :
         With(SSZFactory(ft.t), LAMBDA fac :
         IF ft.err # "" THEN UR(rv.d, 0, ft.err, hw)
         ELSE IF fac = "unsupported" THEN UR(d1, 0, "UnsupportedKind", hw)
         ELSE IF sizes[i + 1] = 0
         THEN structFieldLoop(RV(rv.t, d1), typ, input, sizes, offsets, currentIndex,
                              offsetIndex, i + 1, hw)
         ELSE IF sizes[i + 1] > 0
         THEN structFieldDecode(rv, typ, input, sizes, offsets, i, hw, fac, fd, ft,
                                currentIndex, currentIndex + sizes[i + 1],
                                currentIndex + sizes[i + 1], offsetIndex)
         ELSE IF offsetIndex + 1 > Len(offsets) THEN UR(d1, 0, "panic", hw)
         ELSE IF EmptyVariableField(offsets[offsetIndex + 1], input)
         THEN structFieldLoop(RV(rv.t, d1), typ, input, sizes, offsets,
                              currentIndex + BytesPerLengthOffset, offsetIndex, i + 1, hw)
         ELSE IF offsetIndex + 2 > Len(offsets) THEN UR(d1, 0, "panic", hw)
         ELSE IF offsets[offsetIndex + 2] > SLen(input) THEN UR(d1, 0, "OffsetOutOfRange", hw)
         ELSE structFieldDecode(rv, typ, input, sizes, offsets, i, hw, fac, fd, ft,
                                offsets[offsetIndex + 1], offsets[offsetIndex + 2],
                                currentIndex + BytesPerLengthOffset, offsetIndex + 1)))))

structUnmarshal(rv, typ, input, startOffset) ==
    IF typ.k = "ptr"
    THEN IF rv.d.nil THEN UR(rv.d, startOffset, "", 0)
         ELSE With(structUnmarshal(VElem(rv), Elem(typ), input, startOffset), LAMBDA r :
              UR(Agg(<<r.d>>), r.idx, r.err, r.hw))
    ELSE With(structFixedSizes(rv, typ, structNumFields(typ)), LAMBDA fs :
         With(structOffsets(input, fs.sizes, startOffset, 1, startOffset), LAMBDA offs :
         IF fs.err # "" THEN UR(fs.d, 0, fs.err, 0)
         ELSE structFieldLoop(RV(rv.t, fs.d), typ, input, fs.sizes,
                              offs.offs \o <<SLen(input)>>, startOffset, 0, 0, offs.hw)))

\* factory.Unmarshal for the codec fac.  Only the struct codec takes a pointer.
UnmarshalWith(fac, rv, typ, input, startOffset) ==
    CASE fac = "unsupported" -> UR(rv.d, 0, "UnsupportedKind", 0)
      [] fac = "struct" -> structUnmarshal(rv, typ, input, startOffset)
      [] typ.k = "ptr" -> UR(rv.d, 0, "panic", 0)
      [] fac = "basic" -> basicUnmarshal(rv, typ, input, startOffset)
      [] fac = "basicSlice" -> basicSliceUnmarshal(rv, typ, input, startOffset)
      [] fac = "basicArray" -> basicArrayUnmarshal(rv, typ, input, startOffset)
      [] fac = "compositeSlice" -> compositeSliceUnmarshal(rv, typ, input, startOffset)
      [] OTHER -> compositeArrayUnmarshal(rv, typ, input, startOffset)

\* ------------------------------------------------------------- the facade
\* The interface{} argument of Marshal and Unmarshal: the untyped nil, or a value
\* of type t with data d; self says it has the MarshalSSZ / UnmarshalSSZ method.

Iface(t, d) == [untyped |-> FALSE, self |-> FALSE, t |-> t, d |-> d]
SelfIface(t, d) == [untyped |-> FALSE, self |-> TRUE, t |-> t, d |-> d]
UntypedNil == [untyped |-> TRUE, self |-> FALSE, t |-> BoolT, d |-> Scalar(0)]

\* Marshal returns [out, isNil, err, ran, idx]: the bytes, whether the byte slice
\* is nil, the error, whether a reflective codec ran, and the cursor it returned;
\* with them the length of the buffer it made and the writes into it.
MarshalResult(out, isNil, err, ran, idx) ==
    [out |-> out, isNil |-> isNil, err |-> err, ran |-> ran, idx |-> idx,
     size |-> 0, log |-> <<>>]
WithWrites(result, buf) == [result EXCEPT !.size = Len(buf.bytes), !.log = buf.log]

\* Marshal without its check of the nil value.
MarshalGuard_NilUnchecked(val) ==
    IF val.self THEN "delegate"
    ELSE ""

\* The checks of Marshal before any codec: the error, "delegate" for a value with
\* the MarshalSSZ method, "" to go on.
MarshalGuard(val) ==
    IF val.untyped THEN "NilTopLevel"
    ELSE IF val.self THEN "delegate"
    ELSE ""

\* Marshal returning the buffer as far as it was written together with the error.
MarshalFailure_PartialBuffer(buf, err) == MarshalResult(buf, FALSE, err, TRUE, 0)

\* What Marshal returns when the codec fails: nil and the wrapped error.
MarshalFailure(buf, err) == MarshalResult(<<>>, TRUE, err, TRUE, 0)

\* method is what val.MarshalSSZ() returns, when val has the method.
Marshal(val, meth) ==
    With(MarshalGuard(val), LAMBDA g :
    IF g = "delegate" THEN MarshalResult(meth.out, meth.isNil, meth.err, FALSE, 0)
    ELSE IF g # "" THEN MarshalResult(<<>>, TRUE, g, FALSE, 0)
    ELSE With(RV(val.t, val.d), LAMBDA rval :
         With(Buffer(DetermineSize(rval)), LAMBDA buf :
         IF SSZFactory(val.t) = "unsupported"
         THEN MarshalResult(<<>>, TRUE, "UnsupportedKind", FALSE, 0)
         ELSE IF val.t.k = "ptr" /\ val.d.nil THEN MarshalResult(buf.bytes, FALSE, "", FALSE, 0)
         ELSE With(IF val.t.k = "ptr" THEN MarshalT(VElem(rval), Elem(val.t), buf, 0)
                   ELSE MarshalT(rval, val.t, buf, 0), LAMBDA r :
              IF r.err # "" THEN WithWrites(MarshalFailure(r.buf.bytes, r.err), r.buf)
              ELSE WithWrites(MarshalResult(r.buf.bytes, FALSE, "", TRUE, r.idx), r.buf)))))

\* Unmarshal returns [d, err, ran, idx, hw]: the destination's data afterwards,
\* the error, whether a reflective codec ran, the cursor it returned and the end
\* of the last input byte it read.
UnmarshalResult(d, err, ran, idx, hw) ==
    [d |-> d, err |-> err, ran |-> ran, idx |-> idx, hw |-> hw]

\* Unmarshal checking the pointer before the empty input.
UnmarshalGuard_PointerFirst(inp, val) ==
    IF val.untyped THEN "NilDestination"
    ELSE IF val.self THEN "delegate"
    ELSE IF val.t.k # "ptr" THEN "NonPointerTarget"
    ELSE IF Len(inp) = 0 THEN "EmptyInput"
    ELSE IF val.d.nil THEN "NilInteriorDestination"
    ELSE ""

\* Unmarshal checking the empty input before the UnmarshalSSZ method.
UnmarshalGuard_EmptyFirst(inp, val) ==
    IF val.untyped THEN "NilDestination"
    ELSE IF Len(inp) = 0 THEN "EmptyInput"
    ELSE IF val.self THEN "delegate"
    ELSE IF val.t.k # "ptr" THEN "NonPointerTarget"
    ELSE IF val.d.nil THEN "NilInteriorDestination"
    ELSE ""

\* The checks of Unmarshal before any codec, in the order of the code: the error,
\* "delegate" for a destination with the UnmarshalSSZ method, "" to go on.
UnmarshalGuard(inp, val) ==
    IF val.untyped THEN "NilDestination"
    ELSE IF val.self THEN "delegate"
    ELSE IF Len(inp) = 0 THEN "EmptyInput"
    ELSE IF val.t.k # "ptr" THEN "NonPointerTarget"
    ELSE IF val.d.nil THEN "NilInteriorDestination"
    ELSE ""

\* Unmarshal without its last check.
UnexpectedAmount_Unchecked(inp, rval) == FALSE

\* The last check of Unmarshal: the size of the decoded value against len(input).
UnexpectedAmount(inp, rval) == Len(inp) # DetermineSize(rval)

\* method is what val.UnmarshalSSZ(input) returns, when val has the method.
Unmarshal(inp, val, meth) ==
    With(UnmarshalGuard(inp, val), LAMBDA g :
    IF g = "delegate" THEN UnmarshalResult(val.d, meth.err, FALSE, 0, 0)
    ELSE IF g # "" THEN UnmarshalResult(val.d, g, FALSE, 0, 0)
    ELSE With(SSZFactory(Elem(val.t)), LAMBDA fac :
         IF fac = "unsupported" THEN UnmarshalResult(val.d, "UnsupportedKind", FALSE, 0, 0)
         ELSE With(UnmarshalWith(fac, VElem(RV(val.t, val.d)), Elem(val.t), WholeSlice(inp), 0),
                   LAMBDA r :
              IF r.err # "" THEN UnmarshalResult(Agg(<<r.d>>), r.err, TRUE, 0, r.hw)
              ELSE IF UnexpectedAmount(inp, RV(val.t, Agg(<<r.d>>)))
              THEN UnmarshalResult(Agg(<<r.d>>), "UnexpectedAmountOfData", TRUE, r.idx, r.hw)
              ELSE UnmarshalResult(Agg(<<r.d>>), "", TRUE, r.idx, r.hw))))

\* ------------------------------------------------------------- the inputs

\* The longest list of the values Marshal is given, and the largest byte a byte
\* of an encoding is replaced by in the inputs of Unmarshal.
MaxLen == 2
MaxMutByte == 12

ScalarVals(t) ==
    IF t.k = "bool" \/ t.n = 1 THEN {0, 1} ELSE {0, 258}

SeqsUpTo(S, n) == UNION {[1..k -> S] : k \in 0..n}

\* Every value of a type, with lists of at most MaxLen elements.
RECURSIVE ValuesOf(_)
RECURSIVE FieldValues(_, _)
ValuesOf(t) ==
    CASE t.k \in {"bool", "uint"} -> {Scalar(x) : x \in ScalarVals(t)}
      [] t.k = "slice" -> {NilV} \cup {Agg(s) : s \in SeqsUpTo(ValuesOf(Elem(t)), MaxLen)}
      [] t.k = "array" -> {Agg(s) : s \in [1..t.n -> ValuesOf(Elem(t))]}
      [] t.k = "ptr" -> {NilV} \cup {Agg(<<v>>) : v \in ValuesOf(Elem(t))}
      [] t.k = "struct" -> {Agg(s) : s \in FieldValues(t.f, Len(t.f))}
      [] OTHER -> {Scalar(1)}
FieldValues(fs, n) ==
    IF n = 0 THEN {<<>>}
    ELSE {Append(p, v) : p \in FieldValues(fs, n - 1), v \in ValuesOf(fs[n].t)}

\* The types of the tests and the README, with the 8-byte integers and the
\* 32-byte roots of the tests scaled down to 2 bytes.
exampleStruct1 == StructOf(<<Fld("Field1", Uint8), Fld("Field2", SliceOf(Uint8))>>)
simpleStruct == StructOf(<<Fld("Foo", Uint32)>>)
fork == StructOf(<<Fld("PreviousVersion", ArrayOf(2, Uint8)),
                   Fld("CurrentVersion", ArrayOf(2, Uint8)), Fld("Epoch", Uint64)>>)
nilArrayEx == StructOf(<<Fld("Slot", Uint16), Fld("Graffiti", SliceOf(Uint8)),
                         Fld("DepositIndex", Uint16)>>)
truncateSignatureCase ==
    StructOf(<<Fld("Slot", Uint16), Fld("PreviousBlockRoot", SliceOf(Uint8)),
               Fld("Signature", SliceOf(Uint8))>>)
simpleNonProtoMessage == StructOf(<<Fld("Foo", SliceOf(Uint8)), Fld("Bar", Uint16)>>)
block == StructOf(<<Fld("Slot", Uint16), Fld("Transfers", SliceOf(PtrTo(simpleNonProtoMessage)))>>)
exampleBody == StructOf(<<Fld("Epoch", Uint16)>>)
example == StructOf(<<Fld("Slot", Uint16), Fld("Root", ArrayOf(2, Uint8)),
                      Fld("Body", PtrTo(exampleBody))>>)
emptyStruct == StructOf(<<>>)
\* A list field with ssz-max:"1".
limited == StructOf(<<Fld("Slot", Uint16), FldMax("Items", SliceOf(Uint8), 1)>>)
\* A list of 2-byte numbers as a field.
wordList == StructOf(<<Fld("Slot", Uint16), Fld("Items", SliceOf(Uint16))>>)
holder == StructOf(<<Fld("Body", PtrTo(simpleNonProtoMessage))>>)
hollow == StructOf(<<Fld("Body", PtrTo(emptyStruct))>>)
pair == StructOf(<<Fld("X", Uint8), Fld("Y", BoolT)>>)
boolArray16 == ArrayOf(16, BoolT)

Msg(foo, bar) == Agg(<<Agg(<<foo, Scalar(bar)>>)>>)
Bytes(bs) == Agg([i \in 1..Len(bs) |-> Scalar(bs[i])])
AllOf(n, x) == Agg([i \in 1..n |-> Scalar(x)])

\* A catalogue entry: a type, the values of it Marshal is given, the values whose
\* encodings the inputs of Unmarshal are made from, and whether Unmarshal is given
\* arbitrary bytes for it (not when it holds a uint64: the numbers of the model
\* are below 2^31).
Entry(t, vals, basis, bytesToo) == [t |-> t, vals |-> vals, basis |-> basis, bytesToo |-> bytesToo]

Catalogue ==
    { Entry(BoolT, ValuesOf(BoolT), ValuesOf(BoolT), TRUE),
      Entry(Uint16, ValuesOf(Uint16), ValuesOf(Uint16), TRUE),
      Entry(boolArray16, {AllOf(16, 1), AllOf(16, 0)}, {AllOf(16, 1)}, TRUE),
      Entry(SliceOf(Uint8), ValuesOf(SliceOf(Uint8)), {NilV, Bytes(<<1, 0>>)}, TRUE),
      Entry(SliceOf(Uint16), ValuesOf(SliceOf(Uint16)), {Bytes(<<258, 0>>)}, TRUE),
      Entry(SliceOf(pair), ValuesOf(SliceOf(pair)),
            {Agg(<<Agg(<<Scalar(1), Scalar(1)>>), Agg(<<Scalar(0), Scalar(1)>>)>>)}, TRUE),
      Entry(simpleStruct, {Agg(<<Scalar(12345)>>), Agg(<<Scalar(0)>>)},
            {Agg(<<Scalar(12345)>>)}, TRUE),
      Entry(fork, {Zero(fork), Agg(<<Bytes(<<1, 0>>), Bytes(<<0, 1>>), Scalar(258)>>)}, {}, FALSE),
      Entry(exampleStruct1, ValuesOf(exampleStruct1),
            {Agg(<<Scalar(1), Bytes(<<1, 0>>)>>), Agg(<<Scalar(1), NilV>>)}, TRUE),
      Entry(nilArrayEx, ValuesOf(nilArrayEx),
            {Agg(<<Scalar(258), NilV, Scalar(258)>>),
             Agg(<<Scalar(258), Bytes(<<1, 0>>), Scalar(0)>>)}, TRUE),
      Entry(truncateSignatureCase, ValuesOf(truncateSignatureCase),
            {Agg(<<Scalar(258), NilV, NilV>>),
             Agg(<<Scalar(0), Bytes(<<1>>), Bytes(<<0, 1>>)>>),
             Agg(<<Scalar(0), NilV, Bytes(<<1>>)>>)}, TRUE),
      Entry(example, ValuesOf(example),
            {Agg(<<Scalar(258), Bytes(<<1, 0>>), NilV>>)}, TRUE),
      Entry(simpleNonProtoMessage, ValuesOf(simpleNonProtoMessage),
            {Agg(<<Bytes(<<1>>), Scalar(258)>>)}, TRUE),
      Entry(block,
            {Agg(<<Scalar(5), ts>>) :
                ts \in {NilV} \cup {Agg(s) : s \in SeqsUpTo({NilV, Msg(NilV, 0), Msg(NilV, 258),
                                                            Msg(Bytes(<<1>>), 258)}, MaxLen)}},
            {Agg(<<Scalar(5), Agg(<<Msg(Bytes(<<1>>), 258), Msg(NilV, 0)>>)>>),
             Agg(<<Scalar(5), NilV>>)}, TRUE),
      Entry(SliceOf(SliceOf(Uint8)), ValuesOf(SliceOf(SliceOf(Uint8))),
            {Agg(<<Bytes(<<1>>), Bytes(<<0, 1>>)>>), Agg(<<NilV, NilV>>)}, TRUE),
      Entry(ArrayOf(2, SliceOf(Uint8)), ValuesOf(ArrayOf(2, SliceOf(Uint8))),
            {Agg(<<Bytes(<<1>>), Bytes(<<0, 1>>)>>), Agg(<<NilV, NilV>>),
             Agg(<<Bytes(<<1, 0>>), Bytes(<<0, 1>>)>>)}, TRUE),
      Entry(wordList, ValuesOf(wordList),
            {Agg(<<Scalar(258), Bytes(<<258, 0>>)>>), Agg(<<Scalar(258), Bytes(<<258>>)>>)}, TRUE),
      Entry(limited, ValuesOf(limited),
            {Agg(<<Scalar(258), Bytes(<<1, 0>>)>>), Agg(<<Scalar(258), Bytes(<<1>>)>>)}, TRUE),
      Entry(emptyStruct, {Zero(emptyStruct)}, {Zero(emptyStruct)}, TRUE),
      Entry(holder, ValuesOf(holder), {Agg(<<Msg(Bytes(<<1>>), 258)>>)}, TRUE),
      Entry(hollow, ValuesOf(hollow), {Zero(hollow)}, TRUE) }

\* The values Marshal rejects: complex128 at the top, in a list, in a struct and
\* behind a field that is written first, and a field with a malformed ssz-size tag.
badDirective == StructOf(<<Fld("Slot", Uint16), FldSized("Root", SliceOf(Uint8), <<TagMalformed>>)>>)
lateComplex == StructOf(<<Fld("Slot", Uint16), Fld("Foo", ComplexT)>>)
Unsupported ==
    { Iface(ComplexT, Scalar(1)),
      Iface(StructOf(<<Fld("Foo", ComplexT)>>), Agg(<<Scalar(1)>>)),
      Iface(PtrTo(SliceOf(ComplexT)), Agg(<<Agg(<<Scalar(1), Scalar(1)>>)>>)),
      Iface(lateComplex, Agg(<<Scalar(258), Scalar(1)>>)),
      Iface(badDirective, Agg(<<Scalar(258), Bytes(<<1, 0>>)>>)) }

\* Structs with protobuf metadata fields: the unrecognized bytes declared last, as
\* protoc declares them, and the empty XXX_NoUnkeyedLiteral declared first.
protoTail == StructOf(<<Fld("Foo", SliceOf(Uint8)), Fld("Bar", Uint16),
                        Fld("XXX_unrecognized", SliceOf(Uint8))>>)
protoHead == StructOf(<<Fld("XXX_NoUnkeyedLiteral", emptyStruct), Fld("Slot", Uint16),
                        Fld("Root", ArrayOf(2, Uint8))>>)
ProtoArgs ==
    { Iface(protoTail, Agg(<<Bytes(<<1>>), Scalar(258), NilV>>)),
      Iface(protoTail, Agg(<<NilV, Scalar(0), NilV>>)),
      Iface(protoHead, Agg(<<Agg(<<>>), Scalar(258), Bytes(<<1, 0>>)>>)),
      Iface(protoHead, Zero(protoHead)) }

\* Structs with a field under an ssz-size tag: byte lists and lists of byte lists
\* under every tag of items "?", 0, 1 and 2 that has no more items than the type
\* has dimensions, each with a value that has the lengths the tag gives.
TagItems == {TagUnbounded, 0, 1, 2}
RECURSIVE Dims(_)
Dims(t) == IF t.k \in {"slice", "array"} THEN 1 + Dims(Elem(t)) ELSE 0
TaggedFields ==
    {FldSized("Root", t, s) : t \in {SliceOf(Uint8)}, s \in [1..1 -> TagItems]}
    \cup {FldSized("Roots", SliceOf(SliceOf(Uint8)), s) :
             s \in [1..1 -> TagItems] \cup [1..2 -> TagItems]}
tagged(field) == StructOf(<<Fld("Slot", Uint16), field>>)
RECURSIVE Conforming(_)
Conforming(t) ==
    CASE t.k = "slice" -> Agg(<<Conforming(Elem(t))>>)
      [] t.k = "array" -> Agg([i \in 1..t.n |-> Conforming(Elem(t))])
      [] OTHER -> Scalar(1)
TaggedArgs ==
    {Iface(tagged(f), Agg(<<Scalar(258), Conforming(determineFieldType(f).t)>>)) :
        f \in TaggedFields}

NoMethod == [out |-> <<>>, isNil |-> TRUE, err |-> ""]
MethodResults ==
    { [out |-> <<7, 7>>, isNil |-> FALSE, err |-> ""],
      [out |-> <<>>, isNil |-> FALSE, err |-> ""],
      [out |-> <<>>, isNil |-> TRUE, err |-> "SelfError"],
      [out |-> <<7>>, isNil |-> FALSE, err |-> "SelfError"] }

\* The arguments of Marshal: every catalogue value, as a value and behind a pointer,
\* the nil pointer of each type, the untyped nil and the unsupported types.
MarshalArgs ==
    UNION { {Iface(e.t, v) : v \in e.vals}
            \cup {Iface(PtrTo(e.t), Agg(<<v>>)) : v \in e.vals}
            \cup {Iface(PtrTo(e.t), NilV)} : e \in Catalogue }
    \cup Unsupported \cup {UntypedNil}

\* The values with the MarshalSSZ / UnmarshalSSZ method.
SelfArgs ==
    { SelfIface(PtrTo(simpleStruct), Agg(<<Agg(<<Scalar(12345)>>)>>)),
      SelfIface(PtrTo(simpleStruct), NilV),
      SelfIface(simpleStruct, Agg(<<Scalar(0)>>)) }

\* Marshal of a value, for the inputs of Unmarshal.
EncodingOf(t, v) == Marshal(Iface(t, v), NoMethod).out

\* An encoding with one byte replaced, the last byte dropped or a byte appended.
MutBytes == 0..MaxMutByte
MutationsOf(bs) ==
    {bs}
    \cup {[bs EXCEPT ![i] = b] : i \in 1..Len(bs), b \in MutBytes}
    \cup {SubSeq(bs, 1, Len(bs) - 1) : k \in {1} \cap (1..Len(bs))}
    \cup {Append(bs, b) : b \in MutBytes}

InputsFor(e) == UNION {MutationsOf(EncodingOf(e.t, v)) : v \in e.basis} \cup {<<>>}

\* A fresh zero-valued destination of type t: new(t).
FreshDest(t) == Iface(PtrTo(t), Agg(<<Zero(t)>>))
\* The destinations Unmarshal refuses or delegates.
OddDests(t) == {UntypedNil, Iface(t, Zero(t)), Iface(PtrTo(t), NilV)}

\* Destinations that hold data before the call: a type and what the pointer
\* points to.
HeldData ==
    { <<truncateSignatureCase, Agg(<<Scalar(0), Bytes(<<1>>), NilV>>)>>,
      <<truncateSignatureCase, Agg(<<Scalar(0), Bytes(<<0>>), NilV>>)>>,
      <<truncateSignatureCase, Agg(<<Scalar(0), Bytes(<<0>>), Bytes(<<1>>)>>)>>,
      <<SliceOf(Uint8), Bytes(<<1, 1>>)>>,
      <<SliceOf(Uint8), Bytes(<<0, 0>>)>>,
      <<SliceOf(SliceOf(Uint8)), Agg(<<Bytes(<<1>>), Bytes(<<1>>)>>)>>,
      <<holder, Agg(<<Msg(Bytes(<<1>>), 258)>>)>>,
      <<block, Agg(<<Scalar(5), Agg(<<Msg(Bytes(<<1>>), 258)>>)>>)>> }
HeldDests(t) == {Iface(PtrTo(t), Agg(<<h[2]>>)) : h \in {g \in HeldData : g[1] = t}}

NoEnc == MarshalResult(<<>>, TRUE, "", FALSE, 0)
NoDec == UnmarshalResult(Scalar(0), "", FALSE, 0, 0)

\* ------------------------------------------------------- the state machine

VARIABLES
    pc,      \* the next call: "marshal", "unmarshal", then "unmarshaled" and "done";
             \* "marshaled" when Marshal failed or the value marshalled itself
    origin,  \* "value": Unmarshal is given what Marshal returned; "bytes": any bytes;
             \* "held": any bytes and a destination that holds data
    val,     \* the argument of Marshal
    method,  \* what the argument's own MarshalSSZ / UnmarshalSSZ returns, if it has one
    enc,     \* what Marshal(val) returned
    input,   \* the bytes given to Unmarshal
    dst,     \* the destination given to Unmarshal, as it is before the call
    dec,     \* what Unmarshal(input, dst) returned, and the destination afterwards
    re       \* what Marshal returned for the destination after a successful Unmarshal

vars == <<pc, origin, val, method, enc, input, dst, dec, re>>

InitValue ==
    /\ pc = "marshal"
    /\ origin = "value"
    /\ \/ val \in MarshalArgs \cup ProtoArgs \cup TaggedArgs /\ method = NoMethod
       \/ val \in SelfArgs /\ method \in MethodResults
    /\ enc = NoEnc
    /\ input = <<>>
    /\ dst = UntypedNil
    /\ dec = NoDec
    /\ re = NoEnc

InitBytes ==
    /\ pc = "unmarshal"
    /\ origin = "bytes"
    /\ val = UntypedNil
    /\ enc = NoEnc
    /\ \E e \in {c \in Catalogue : c.bytesToo} :
          \/ dst = FreshDest(e.t) /\ input \in InputsFor(e) /\ method = NoMethod
          \/ /\ dst \in OddDests(e.t)
             /\ input \in {<<>>} \cup {EncodingOf(e.t, v) : v \in e.basis}
             /\ method = NoMethod
    /\ dec = NoDec
    /\ re = NoEnc

InitSelf ==
    /\ pc = "unmarshal"
    /\ origin = "bytes"
    /\ val = UntypedNil
    /\ enc = NoEnc
    /\ dst \in SelfArgs
    /\ input \in {<<>>, <<57, 48, 0, 0>>, <<1>>}
    /\ method \in MethodResults
    /\ dec = NoDec
    /\ re = NoEnc

InitHeld ==
    /\ pc = "unmarshal"
    /\ origin = "held"
    /\ val = UntypedNil
    /\ enc = NoEnc
    /\ \E e \in {c \in Catalogue : c.bytesToo} :
          dst \in HeldDests(e.t) /\ input \in InputsFor(e)
    /\ method = NoMethod
    /\ dec = NoDec
    /\ re = NoEnc

Init == InitValue \/ InitBytes \/ InitSelf \/ InitHeld

\* Marshal(val); the bytes it returns go to Unmarshal with a fresh destination.
MarshalCall ==
    /\ pc = "marshal"
    /\ enc' = Marshal(val, method)
    /\ IF enc'.err = "" /\ ~val.self
       THEN /\ pc' = "unmarshal"
            /\ input' = enc'.out
            /\ dst' = FreshDest(IF val.t.k = "ptr" THEN Elem(val.t) ELSE val.t)
       ELSE /\ pc' = "marshaled"
            /\ UNCHANGED <<input, dst>>
    /\ UNCHANGED <<origin, val, method, dec, re>>

\* Unmarshal(input, dst).
UnmarshalCall ==
    /\ pc = "unmarshal"
    /\ dec' = Unmarshal(input, dst, method)
    /\ pc' = "unmarshaled"
    /\ UNCHANGED <<origin, val, method, enc, input, dst, re>>

\* Marshal of the destination Unmarshal filled.
RemarshalCall ==
    /\ pc = "unmarshaled"
    /\ dec.err = ""
    /\ ~dst.self
    /\ re' = Marshal(Iface(dst.t, dec.d), NoMethod)
    /\ pc' = "done"
    /\ UNCHANGED <<origin, val, method, enc, input, dst, dec>>

Next == MarshalCall \/ UnmarshalCall \/ RemarshalCall

Spec == Init /\ [][Next]_vars

\* The step of the Marshal loops that writes one offset, with offsets of
\* NarrowWidth bytes in place of 4, so that positions that do not fit are in reach:
\* a variable-size child at position in a buffer, of a composite that starts at start.
NarrowWidth == 1
MaxPosition == 300
MaxStart == 2

InitOffset ==
    /\ pc = "offset"
    /\ origin = "offset"
    /\ val \in {[start |-> st, position |-> p] : st \in 0..MaxStart, p \in MaxStart..MaxPosition}
    /\ method = NoMethod
    /\ enc = NoEnc
    /\ input = <<>>
    /\ dst = UntypedNil
    /\ dec = NoDec
    /\ re = NoEnc

\* offsetBuf := make([]byte, width); PutUint(offsetBuf, uint(position - start))
OffsetWrite ==
    /\ pc = "offset"
    /\ enc' = With(PutOffsetOfWidth(Buffer(NarrowWidth), 0,
                                    structOffsetValue(val.position, val.start), NarrowWidth),
                   LAMBDA w : MarshalResult(w.buf.bytes, w.err # "", w.err, TRUE, 0))
    /\ pc' = "written"
    /\ UNCHANGED <<origin, val, method, input, dst, dec, re>>

NextOffset == OffsetWrite

SpecOffset == InitOffset /\ [][NextOffset]_vars
\* ---------------------------------------------------------------- claims

\* The untyped nil, the self-marshalling values, complex128, the malformed size
\* tags and the structs with XXX_ fields (which C13 is about) apart.
Supported(a) == ~a.untyped /\ ~a.self /\ a \notin Unsupported \cup ProtoArgs

\* A value with every nil list read as the empty list and every nil pointer as a
\* pointer to the zero value: the equality of values that go through the wire.
RECURSIVE Norm(_, _)
Norm(t, d) ==
    CASE t.k = "slice" ->
            IF d.nil THEN Agg(<<>>) ELSE Agg([i \in 1..Len(d.c) |-> Norm(Elem(t), d.c[i])])
      [] t.k = "array" -> Agg([i \in 1..Len(d.c) |-> Norm(Elem(t), d.c[i])])
      [] t.k = "ptr" -> Agg(<<Norm(Elem(t), IF d.nil THEN Zero(Elem(t)) ELSE d.c[1])>>)
      [] t.k = "struct" -> Agg([i \in 1..Len(d.c) |-> Norm(t.f[i].t, d.c[i])])
      [] OTHER -> d

\* The data of the pointer Unmarshal is given for the value Marshal was given.
BehindPointer(a) == IF a.t.k = "ptr" THEN a.d ELSE Agg(<<a.d>>)
Decoded == pc \in {"unmarshaled", "done"}

\* C1: round trip of values.  For every value of a supported type (not the nil
\* pointer, which C5 is about) Marshal succeeds; and, when the bytes are not
\* empty, Unmarshal of them into a fresh zero-valued destination of the same type
\* succeeds and leaves the destination equal to the value, a nil list counting as
\* the empty one and a nil pointer as a pointer to the zero value.
C1_RoundTripValues ==
    (origin = "value" /\ Supported(val) /\ ~(val.t.k = "ptr" /\ val.d.nil)) =>
        /\ pc # "marshal" => enc.err = ""
        /\ (Decoded /\ enc.out # <<>>) =>
              /\ dec.err = ""
              /\ Norm(dst.t, dec.d) = Norm(dst.t, BehindPointer(val))

\* C2: round trip of bytes.  Whenever Unmarshal(b, d) returns no error, Marshal
\* of the destination returns exactly b.
C2_RoundTripBytes ==
    (pc = "done" /\ dec.ran /\ dec.err = "") => (re.err = "" /\ re.out = input)

\* C3: size pre-computation.  Whenever Marshal runs a codec on a supported value,
\* the codec succeeds (it writes no byte past the buffer allocated from
\* DetermineSize) and the cursor it returns is the length of the bytes Marshal
\* returns (there is no unwritten tail); so too for the values Unmarshal leaves.
C3_SizePrecomputation ==
    /\ (pc # "marshal" /\ Supported(val) /\ enc.ran) =>
          (enc.err = "" /\ enc.idx = Len(enc.out))
    /\ (pc = "done" /\ re.ran) => (re.err = "" /\ re.idx = Len(re.out))

\* A struct with two lists, both with elements, has been marshalled: the cursor
\* is behind the offsets and the elements.
C3_Witness ==
    /\ pc # "marshal" /\ val.t = truncateSignatureCase /\ enc.ran /\ enc.err = ""
    /\ Len(val.d.c[2].c) = 1 /\ Len(val.d.c[3].c) = 2
    /\ enc.idx = 13 /\ Len(enc.out) = 13

\* Field i of struct type t is a pointer to a struct / a list.
IsStructPointer(t, i) == t.f[i].t.k = "ptr" /\ Elem(t.f[i].t).k = "struct"
IsList(t, i) == t.f[i].t.k = "slice"
\* The struct value d with its nil pointer-to-struct fields pointing to zero structs.
WithZeroSubs(t, d) ==
    Agg([i \in 1..Len(t.f) |->
            IF IsStructPointer(t, i) /\ d.c[i].nil THEN Agg(<<Zero(Elem(t.f[i].t))>>)
            ELSE d.c[i]])
\* The struct value d with its nil lists allocated, of length 0.
WithEmptyLists(t, d) ==
    Agg([i \in 1..Len(t.f) |-> IF IsList(t, i) /\ d.c[i].nil THEN Agg(<<>>) ELSE d.c[i]])
\* Marshal was given a struct with a nil pointer-to-struct field / a nil list field.
NilSubGiven ==
    /\ origin = "value" /\ Supported(val) /\ val.t.k = "struct"
    /\ \E i \in 1..Len(val.t.f) : IsStructPointer(val.t, i) /\ val.d.c[i].nil
NilListGiven ==
    /\ origin = "value" /\ Supported(val) /\ val.t.k = "struct"
    /\ \E i \in 1..Len(val.t.f) : IsList(val.t, i) /\ val.d.c[i].nil

\* C4 as it is stated: for a struct with a nil pointer-to-struct field Marshal
\* returns the bytes it returns with the field pointing to a zero struct, and
\* Unmarshal of them into a fresh destination succeeds.
C4_NullZeroSubfield ==
    NilSubGiven =>
        /\ pc # "marshal" =>
              (enc.err = "" /\ enc.out = Marshal(Iface(val.t, WithZeroSubs(val.t, val.d)), NoMethod).out)
        /\ Decoded => dec.err = ""

\* C4, amended: for a struct with a nil pointer-to-struct field Marshal returns
\* the bytes it returns with the field pointing to a zero struct; Unmarshal of
\* them into a fresh destination succeeds when they are not empty, and fails with
\* the empty-input error when they are (a struct whose fields take no bytes).
C4_NullZeroSubfield_NonEmpty ==
    NilSubGiven =>
        /\ pc # "marshal" =>
              (enc.err = "" /\ enc.out = Marshal(Iface(val.t, WithZeroSubs(val.t, val.d)), NoMethod).out)
        /\ Decoded => dec.err = (IF input = <<>> THEN "EmptyInput" ELSE "")

\* The struct with a nil pointer to a struct with a list has been marshalled and
\* unmarshalled: the offset of the pointee and its zero-valued fields.
C4_Witness ==
    /\ NilSubGiven /\ val.t = holder /\ Decoded
    /\ input = <<4, 0, 0, 0, 6, 0, 0, 0, 0, 0>> /\ dec.err = ""

\* C5: for a struct type T, Marshal of the nil *T returns, without error, the
\* bytes Marshal returns for a pointer to the zero value of T.
C5_NilPointerIsZeroValue ==
    (pc # "marshal" /\ origin = "value" /\ Supported(val)
       /\ val.t.k = "ptr" /\ val.d.nil /\ Elem(val.t).k = "struct") =>
        /\ enc.err = ""
        /\ enc.out = Marshal(Iface(val.t, Agg(<<Zero(Elem(val.t))>>)), NoMethod).out

\* C6: for a struct with a nil list field Marshal returns, without error, the
\* bytes it returns with the list allocated and of length 0.
C6_NilListIsEmptyList ==
    (NilListGiven /\ pc # "marshal") =>
        /\ enc.err = ""
        /\ enc.out = Marshal(Iface(val.t, WithEmptyLists(val.t, val.d)), NoMethod).out

\* A struct with a nil list between a number and a list with elements has been
\* marshalled.
C6_Witness ==
    /\ NilListGiven /\ pc # "marshal" /\ val.t = truncateSignatureCase
    /\ val.d.c[2].nil /\ Len(val.d.c[3].c) = 2 /\ Len(enc.out) = 12

\* C7: Marshal of the untyped nil returns an error and no bytes; Unmarshal into
\* the untyped nil returns an error; Unmarshal of input that is not empty into a
\* typed nil pointer without the UnmarshalSSZ method returns an error; and none
\* of them runs a codec.
C7_NilRejection ==
    /\ (pc # "marshal" /\ origin = "value" /\ val.untyped) =>
          (enc.err # "" /\ enc.isNil /\ enc.out = <<>> /\ ~enc.ran)
    /\ (Decoded /\ dst.untyped) => (dec.err # "" /\ ~dec.ran)
    /\ (Decoded /\ ~dst.untyped /\ ~dst.self /\ dst.t.k = "ptr" /\ dst.d.nil /\ input # <<>>) =>
          (dec.err # "" /\ ~dec.ran /\ dec.d = dst.d)

\* Unmarshal has refused input that is not empty for a typed nil pointer.
C7_Witness ==
    /\ Decoded /\ ~dst.untyped /\ ~dst.self /\ dst.t.k = "ptr" /\ dst.d.nil
    /\ Len(input) > 0 /\ dec.err = "NilInteriorDestination"

\* The error the checks of Unmarshal give in the order the claim states: the nil
\* destination, the destination that is no pointer, the empty input, the nil pointer.
ErrorInOrderStated ==
    IF dst.untyped THEN "NilDestination"
    ELSE IF dst.t.k # "ptr" THEN "NonPointerTarget"
    ELSE IF input = <<>> THEN "EmptyInput"
    ELSE IF dst.d.nil THEN "NilInteriorDestination"
    ELSE ""
\* And in the order of the code: the empty input before the pointer.
ErrorInOrderFound ==
    IF dst.untyped THEN "NilDestination"
    ELSE IF input = <<>> THEN "EmptyInput"
    ELSE IF dst.t.k # "ptr" THEN "NonPointerTarget"
    ELSE IF dst.d.nil THEN "NilInteriorDestination"
    ELSE ""

\* C8 as it is stated: for a destination without the UnmarshalSSZ method the
\* checks are the nil destination, then the destination that is no pointer, then
\* the empty input, then the nil pointer; the empty input into a destination that
\* is no pointer gets the non-pointer error.
C8_CheckOrder ==
    (Decoded /\ ~dst.self) =>
        IF ErrorInOrderStated # "" THEN dec.err = ErrorInOrderStated /\ ~dec.ran ELSE dec.ran

\* C8, amended: the checks are the nil destination, then the empty input, then
\* the destination that is no pointer, then the nil pointer; the empty input into
\* a destination that is no pointer gets the empty-input error.
C8_CheckOrder_EmptyFirst ==
    (Decoded /\ ~dst.self) =>
        IF ErrorInOrderFound # "" THEN dec.err = ErrorInOrderFound /\ ~dec.ran ELSE dec.ran

\* Unmarshal has refused the empty input for a destination that is no pointer.
C8_Witness ==
    /\ Decoded /\ ~dst.untyped /\ ~dst.self /\ dst.t.k # "ptr" /\ input = <<>>
    /\ dec.err = "EmptyInput"

\* Unmarshal ran a codec for a fresh destination and returned no error.
Accepted == Decoded /\ dec.ran /\ dec.err = ""
\* The destination is a pointer to a value of a fixed-size type.
FixedDestination ==
    /\ ~dst.untyped /\ ~dst.self /\ dst.t.k = "ptr" /\ ~dst.d.nil
    /\ ~isVariableSizeType(Elem(dst.t))

\* C9: Unmarshal returns no error only if the codec consumed the whole input,
\* that is, read it to its last byte, so that input with bytes behind the last
\* decoded child is refused; a destination of a fixed-size type of size S refuses
\* every input of another length; a [16]bool refuses 15 and 17 bytes and accepts
\* sixteen 0x01.
C9_ExactConsumption ==
    /\ Accepted => dec.hw = Len(input)
    /\ (Decoded /\ FixedDestination /\ Len(input) # FixedSize(Elem(dst.t))) => dec.err # ""
    /\ (Decoded /\ dst = FreshDest(boolArray16)) =>
          /\ Len(input) \in {15, 17} => dec.err # ""
          /\ input = [i \in 1..16 |-> 1] => (dec.err = "" /\ dec.d = Agg(<<AllOf(16, 1)>>))

\* C10: for a value with the MarshalSSZ method Marshal returns the bytes and the
\* error of the method and runs no codec; for a destination with the
\* UnmarshalSSZ method Unmarshal returns the error of the method for every
\* input, the empty one too, and runs no codec and none of the later checks.
C10_CapabilityPriority ==
    /\ (pc # "marshal" /\ origin = "value" /\ val.self) =>
          /\ enc.out = method.out /\ enc.isNil = method.isNil /\ enc.err = method.err
          /\ ~enc.ran
    /\ (Decoded /\ dst.self) => (dec.err = method.err /\ ~dec.ran /\ dec.d = dst.d)

\* Unmarshal of the empty input into a nil pointer with the UnmarshalSSZ method
\* has returned the nil error of the method.
C10_Witness ==
    /\ Decoded /\ dst.self /\ dst.d.nil /\ input = <<>>
    /\ method.err = "" /\ dec.err = ""

\* C11: whenever Marshal of a value without the MarshalSSZ method returns an
\* error (an unsupported kind at any depth, a malformed size tag, a child codec
\* that fails), the byte slice it returns is nil: no buffer comes with an error.
C11_NoPartialOutput ==
    /\ (pc # "marshal" /\ origin = "value" /\ ~val.self /\ enc.err # "") =>
          (enc.isNil /\ enc.out = <<>>)
    /\ (pc = "done" /\ re.err # "") => (re.isNil /\ re.out = <<>>)

\* Marshal has failed on the complex128 field of a struct after it had written
\* the field before it into the buffer.
C11_Witness ==
    /\ pc = "marshaled" /\ val.t = lateComplex /\ enc.ran
    /\ enc.err = "UnsupportedKind" /\ enc.isNil

\* C12: for every input and every fresh destination of a supported type
\* Unmarshal returns, with or without an error: no slice expression and no index
\* of a codec goes out of range, which Go answers with a run-time panic.
C12_MemorySafeDecode ==
    (Decoded /\ dec.ran) => dec.err # "panic"

\* The fields of a struct type that are in the schema, and a value's data for them.
KeptFields(t) == {i \in 1..Len(t.f) : ~IsSkipped(t.f[i].name)}
RECURSIVE Keep(_, _, _)
Keep(fs, kept, n) ==
    IF n = 0 THEN <<>>
    ELSE IF n \in kept THEN Append(Keep(fs, kept, n - 1), fs[n]) ELSE Keep(fs, kept, n - 1)
WithoutSkipped(t) == StructOf(Keep(t.f, KeptFields(t), Len(t.f)))
DataWithoutSkipped(t, d) == Agg(Keep(d.c, KeptFields(t), Len(t.f)))

\* C13: for a struct with XXX_ fields, at whatever position, Marshal returns the
\* bytes it returns for the struct declared without them (no byte and no size for
\* a skipped field), and Unmarshal of those bytes leaves in the other fields what
\* it leaves in a destination declared without the skipped fields.
C13_SkippedFields ==
    (origin = "value" /\ val \in ProtoArgs /\ pc # "marshal") =>
        /\ enc.err = ""
        /\ enc.out = Marshal(Iface(WithoutSkipped(val.t), DataWithoutSkipped(val.t, val.d)),
                             NoMethod).out
        /\ Decoded =>
              /\ dec.err = ""
              /\ DataWithoutSkipped(val.t, dec.d.c[1])
                   = Unmarshal(input, FreshDest(WithoutSkipped(val.t)), NoMethod).d.c[1]

\* The innermost element of a type, under all its dimensions.
RECURSIVE Innermost(_)
Innermost(t) == IF t.k \in {"slice", "array"} THEN Innermost(Elem(t)) ELSE t
\* The type that has dimension i, i+1, ... as the tag items say, over base: a list
\* for the items in lists, a vector of the item's length for the others.
RECURSIVE Rewritten(_, _, _, _)
Rewritten(base, items, lists, i) ==
    IF i > Len(items) THEN base
    ELSE IF items[i] \in lists THEN SliceOf(Rewritten(base, items, lists, i + 1))
    ELSE ArrayOf(items[i], Rewritten(base, items, lists, i + 1))
\* Marshal was given a struct whose second field has an ssz-size tag.
TaggedGiven == origin = "value" /\ val \in TaggedArgs /\ pc # "marshal"
\* The struct of val with its tagged field declared as type t, without the tag.
Redeclared(t) == StructOf(<<val.t.f[1], Fld(val.t.f[2].name, t)>>)

\* C14 as it is stated: the tag n1,...,nk makes dimension d of the field's type a
\* vector of length nd when nd is a number and a list when nd is "?", over the
\* innermost element of the declared type; and Marshal encodes the field as a
\* field declared with that type.
C14_SizeDirective ==
    TaggedGiven =>
        With(Rewritten(Innermost(val.t.f[2].t), val.t.f[2].size, {TagUnbounded}, 1), LAMBDA t :
             /\ determineFieldType(val.t.f[2]) = [t |-> t, err |-> ""]
             /\ enc.out = Marshal(Iface(Redeclared(t), val.d), NoMethod).out)

\* C14, amended: the tag n1,...,nk makes dimension d of the field's type a vector
\* of length nd when nd is a number above 0 and a list when nd is "?" or 0, over
\* what the declared type has under its first k dimensions (its innermost
\* element when k is the number of its dimensions); and Marshal encodes the
\* field as a field declared with that type.
C14_SizeDirective_Depth ==
    TaggedGiven =>
        With(Rewritten(InnerElem(val.t.f[2].t, Len(val.t.f[2].size)), val.t.f[2].size,
                       {TagUnbounded, 0}, 1), LAMBDA t :
             /\ determineFieldType(val.t.f[2]) = [t |-> t, err |-> ""]
             /\ enc.out = Marshal(Iface(Redeclared(t), val.d), NoMethod).out)

\* A list of byte lists tagged "?,2" has been marshalled as a list of 2-byte
\* vectors: one element, inline behind the offset of the list.
C14_Witness ==
    /\ TaggedGiven /\ val.t.f[2].t = SliceOf(SliceOf(Uint8))
    /\ val.t.f[2].size = <<TagUnbounded, 2>>
    /\ determineFieldType(val.t.f[2]).t = SliceOf(ArrayOf(2, Uint8))
    /\ enc.err = "" /\ enc.out = <<2, 1, 6, 0, 0, 0, 1, 1>>

\* Marshal was given a block, or a pointer to one, whose list of transfers is nil
\* or has no element.
EmptyTransfersGiven ==
    /\ origin = "value" /\ Supported(val) /\ pc # "marshal"
    /\ \/ val.t = block /\ Len(val.d.c[2].c) = 0
       \/ val.t = PtrTo(block) /\ ~val.d.nil /\ Len(val.d.c[1].c[2].c) = 0

\* C15: a struct with a fixed-size field and a list of variable-size elements
\* that is nil or empty marshals without error, the bytes unmarshal without
\* error, and the list of the destination has no element afterwards.
C15_PartialData ==
    EmptyTransfersGiven =>
        /\ enc.err = ""
        /\ Decoded => (dec.err = "" /\ Len(dec.d.c[1].c[2].c) = 0
                        /\ dec.d.c[1].c[1] = Scalar(5))

\* &block{Slot: 5} has been marshalled and unmarshalled: the slot and the offset
\* of the list, which is the end of the input.
C15_Witness ==
    /\ EmptyTransfersGiven /\ val.t = PtrTo(block) /\ val.d.c[1].c[2].nil
    /\ Decoded /\ input = <<5, 0, 6, 0, 0, 0>> /\ dec.err = "" /\ dec.ran

\* The layout the claims state, as a function of the value: the bytes of a value
\* d of type t, every offset counted from the start of its own composite.
RECURSIVE Concat(_, _)
Concat(parts, n) == IF n = 0 THEN <<>> ELSE Concat(parts, n - 1) \o parts[n]
\* The length of the variable-size parts before part i.
RECURSIVE VariableBefore(_, _, _)
VariableBefore(parts, variable, i) ==
    IF i <= 1 THEN 0
    ELSE VariableBefore(parts, variable, i - 1)
         + (IF variable[i - 1] THEN Len(parts[i - 1]) ELSE 0)
\* The prefix slots: a fixed-size part inline, the offset of a variable-size one.
PrefixSlots(parts, variable, fixedLength) ==
    [i \in 1..Len(parts) |->
        IF variable[i]
        THEN LEBytes(fixedLength + VariableBefore(parts, variable, i), BytesPerLengthOffset)
        ELSE parts[i]]
\* The prefix, then the variable-size parts back to back.
Composite(parts, variable) ==
    With(SumTo([i \in 1..Len(parts) |->
                  IF variable[i] THEN BytesPerLengthOffset ELSE Len(parts[i])], Len(parts)),
         LAMBDA fixedLength :
         Concat(PrefixSlots(parts, variable, fixedLength), Len(parts))
         \o Concat([i \in 1..Len(parts) |-> IF variable[i] THEN parts[i] ELSE <<>>], Len(parts)))
RECURSIVE Layout(_, _)
Layout(t, d) ==
    CASE t.k \in {"bool", "uint"} -> LEBytes(d.s, t.n)
      [] t.k = "ptr" -> Layout(Elem(t), IF d.nil THEN Zero(Elem(t)) ELSE d.c[1])
      [] t.k \in {"slice", "array"} ->
            Composite([i \in 1..Len(d.c) |-> Layout(Elem(t), d.c[i])],
                      [i \in 1..Len(d.c) |-> isVariableSizeType(Elem(t))])
      [] t.k = "struct" ->
            Composite([i \in 1..Len(t.f) |-> Layout(determineFieldType(t.f[i]).t, d.c[i])],
                      [i \in 1..Len(t.f) |-> isVariableSizeType(determineFieldType(t.f[i]).t)])
      [] OTHER -> <<>>

\* Marshal has returned the bytes of a supported struct, or of a pointer to one.
StructMarshalled ==
    /\ origin = "value" /\ Supported(val) /\ pc # "marshal" /\ enc.ran
    /\ SSZFactory(val.t) = "struct"

\* C16: structSSZ.Marshal writes a prefix with the fixed-size fields inline, in
\* the order they are declared, and a 4-byte little-endian offset for each
\* variable-size field, counted from the start of the struct: the first is the
\* length of the prefix, each next one is greater by the length of the field
\* before; the variable-size fields follow the prefix back to back, and the
\* cursor returned is the end of the last of them.  So too for the structs
\* inside the value, each from its own start.
C16_StructLayout ==
    StructMarshalled =>
        /\ enc.err = ""
        /\ enc.out = Layout(val.t, val.d)
        /\ enc.idx = Len(enc.out)

\* A struct with a pointer to a struct with a list: the inner struct starts at 4,
\* and the offset of its list, 4, is counted from there.
C16_Witness ==
    /\ StructMarshalled /\ val.t = holder /\ ~val.d.c[1].nil
    /\ enc.out = <<4, 0, 0, 0, 6, 0, 0, 0, 2, 1, 1>> /\ enc.idx = 11

\* The type has a list or a vector, at the top or inside.
RECURSIVE ContainsCollection(_)
ContainsCollection(t) ==
    CASE t.k \in {"slice", "array"} -> TRUE
      [] t.k = "ptr" -> ContainsCollection(Elem(t))
      [] t.k = "struct" -> \E i \in 1..Len(t.f) : ContainsCollection(t.f[i].t)
      [] OTHER -> FALSE
\* Marshal has run a codec on a supported value with a list or a vector.
CollectionMarshalled ==
    /\ origin = "value" /\ Supported(val) /\ pc # "marshal" /\ enc.ran
    /\ ContainsCollection(val.t)
\* The value is a list or vector of L >= 1 variable-size elements.
VariableElements ==
    /\ val.t.k \in {"slice", "array"} /\ isVariableSizeType(Elem(val.t))
    /\ Len(val.d.c) >= 1

\* C17: for a list or vector of L >= 1 variable-size elements the composite
\* codecs write L 4-byte little-endian offsets, counted from the start of the
\* collection, then the elements back to back: offset 0 is 4 * L, each next one
\* is greater by the length of the element before, and the cursor returned is
\* the end of the last element; for fixed-size elements the bytes are the
\* elements' bytes one after the other.  So too for the collections inside a
\* value, each from its own start.
C17_CollectionLayout ==
    CollectionMarshalled =>
        /\ enc.err = ""
        /\ enc.out = Layout(val.t, val.d)
        /\ enc.idx = Len(enc.out)
        /\ VariableElements =>
              LEValue(SubSeq(enc.out, 1, BytesPerLengthOffset), BytesPerLengthOffset)
                = BytesPerLengthOffset * Len(val.d.c)

\* A list of two byte lists, of 1 and 2 bytes: the offsets 8 and 9, then the bytes.
C17_Witness ==
    /\ CollectionMarshalled /\ val.t = SliceOf(SliceOf(Uint8)) /\ VariableElements
    /\ Len(val.d.c) = 2
    /\ enc.out = <<8, 0, 0, 0, 9, 0, 0, 0, 1, 0, 1>> /\ enc.idx = 11

\* C18: every offset Marshal writes is the position of the child counted from
\* the start of its composite; when that does not fit in the width of an offset
\* (here NarrowWidth bytes for the 4 of uint32), Marshal reports an error and
\* does not write the position cut to its low bytes.
C18_OffsetFits ==
    (pc = "written") =>
        IF val.position - val.start < Pow256(NarrowWidth)
        THEN enc.err = "" /\ LEValue(enc.out, NarrowWidth) = val.position - val.start
        ELSE enc.err # ""

\* Unmarshal ran a codec on input of at least one offset for a fresh list or
\* vector of variable-size elements; the first offset of the input.
VariableCollectionDecoded ==
    /\ Decoded /\ dec.ran /\ ~dst.untyped /\ ~dst.self /\ dst.t.k = "ptr"
    /\ Elem(dst.t).k \in {"slice", "array"} /\ isVariableSizeType(Elem(Elem(dst.t)))
    /\ Len(input) >= BytesPerLengthOffset
FirstOffset == LEValue(SubSeq(input, 1, BytesPerLengthOffset), BytesPerLengthOffset)
BadFirstOffset ==
    \/ FirstOffset = 0
    \/ FirstOffset % BytesPerLengthOffset # 0
    \/ FirstOffset > Len(input)

\* C19: decoding a list or vector of variable-size elements, Unmarshal returns
\* an error when the first offset is 0, is no multiple of 4 or is greater than
\* len(input); and when it returns none, the number of elements is the first
\* offset divided by 4.
C19_FirstOffsetValidated ==
    VariableCollectionDecoded =>
        /\ BadFirstOffset => dec.err \notin {"", "panic"}
        /\ dec.err = "" => Len(dec.d.c[1].c) = FirstOffset \div BytesPerLengthOffset

\* The positions of the offsets at the top of an input for a destination of type
\* t: one per variable-size field of a struct, and as many as the first offset
\* announces for a list or vector of variable-size elements.
RECURSIVE StructSlots(_, _, _)
StructSlots(fields, i, pos) ==
    IF i > Len(fields) THEN <<>>
    ELSE IF isVariableSizeType(determineFieldType(fields[i]).t)
         THEN <<pos>> \o StructSlots(fields, i + 1, pos + BytesPerLengthOffset)
         ELSE StructSlots(fields, i + 1, pos + FixedSize(determineFieldType(fields[i]).t))
OffsetSlots(t) ==
    IF t.k = "struct" THEN StructSlots(t.f, 1, 0)
    ELSE IF t.k \in {"slice", "array"} /\ isVariableSizeType(Elem(t))
              /\ Len(input) >= BytesPerLengthOffset /\ ~BadFirstOffset
         THEN [i \in 1..(FirstOffset \div BytesPerLengthOffset) |-> (i - 1) * BytesPerLengthOffset]
         ELSE <<>>
\* The offsets read at these positions, then len(input).
OffsetsOf(slots) ==
    [i \in 1..Len(slots) |->
        LEValue(SubSeq(input, slots[i] + 1, slots[i] + BytesPerLengthOffset), BytesPerLengthOffset)]
    \o <<Len(input)>>
Decreasing(offs) == \E i \in 1..(Len(offs) - 1) : offs[i] > offs[i + 1]
\* Unmarshal ran a codec for a fresh list, vector or struct on an input that holds
\* every offset slot, and some offset is greater than the one after it.
NonMonotonicDecoded ==
    /\ Decoded /\ dec.ran /\ ~dst.untyped /\ ~dst.self /\ dst.t.k = "ptr"
    /\ With(OffsetSlots(Elem(dst.t)), LAMBDA slots :
            /\ Len(slots) > 0
            /\ slots[Len(slots)] + BytesPerLengthOffset <= Len(input)
            /\ Decreasing(OffsetsOf(slots)))

\* C20: decoding a list or vector of variable-size elements or a struct, when an
\* offset is greater than the next one, or the last offset greater than
\* len(input), Unmarshal returns an error: it does not report success with the
\* elements before the bad pair.
C20_NonMonotonicIsError == NonMonotonicDecoded => dec.err \notin {"", "panic"}

\* Unmarshal ran the codec of a fresh vector of variable-size elements on an input
\* whose first offset is a positive multiple of 4 inside the input.
VectorDecoded ==
    VariableCollectionDecoded /\ Elem(dst.t).k = "array" /\ ~BadFirstOffset
\* Unmarshal ran a codec for a fresh struct.
StructDecoded ==
    /\ Decoded /\ dec.ran /\ ~dst.untyped /\ ~dst.self /\ dst.t.k = "ptr"
    /\ Elem(dst.t).k = "struct"
\* The lists of the decoded struct that hold more elements than the ssz-max tag
\* of their field allows.
OverLimit ==
    {i \in 1..Len(Elem(dst.t).f) :
        /\ Elem(dst.t).f[i].max # <<>>
        /\ Elem(dst.t).f[i].t.k = "slice"
        /\ Len(dec.d.c[1].c[i].c) > determineFieldCapacity(Elem(dst.t).f[i])}

\* C21: decoding a vector of N variable-size elements, Unmarshal returns an error
\* unless the first offset announces N elements; decoding a struct, it returns
\* an error rather than a list with more elements than the max limit its field
\* declares.
C21_ArityAndLimit ==
    /\ (VectorDecoded /\ FirstOffset \div BytesPerLengthOffset # Elem(dst.t).n)
            => dec.err \notin {"", "panic"}
    /\ (StructDecoded /\ dec.err = "") => OverLimit = {}

\* A list of fixed-size elements.
FixedElementList(t) == t.k = "slice" /\ ~isVariableSizeType(Elem(t))
\* The fields of a struct whose bytes are behind an offset, in order.
VariableFields(t) ==
    SelectSeq([i \in 1..Len(t.f) |-> i],
              LAMBDA i : isVariableSizeType(determineFieldType(t.f[i]).t))
\* The length of a struct's prefix: its fixed-size fields and its offsets.
PrefixLength(t) ==
    SumTo([i \in 1..Len(t.f) |->
             With(determineFieldType(t.f[i]).t, LAMBDA ft :
                  IF isVariableSizeType(ft) THEN BytesPerLengthOffset ELSE FixedSize(ft))],
          Len(t.f))
\* The lengths of the slices of the input that hold a list of fixed-size elements
\* and are no multiple of the element's size: the whole input for a list at the
\* top, the bytes between a field's offset and the next for a struct whose
\* offsets are in order, start behind the prefix and end inside the input.
MisalignedSlices ==
    With(Elem(dst.t), LAMBDA t :
    IF FixedElementList(t)
    THEN {Len(input)} \cap {n \in 0..Len(input) : n % FixedSize(Elem(t)) # 0}
    ELSE IF t.k # "struct" \/ Len(input) < PrefixLength(t) THEN {}
    ELSE With(OffsetsOf(StructSlots(t.f, 1, 0)), LAMBDA offs :
         IF Decreasing(offs) \/ offs[1] # PrefixLength(t) THEN {}
         ELSE {offs[j + 1] - offs[j] : j \in
                 {k \in 1..Len(VariableFields(t)) :
                     With(determineFieldType(t.f[VariableFields(t)[k]]).t, LAMBDA ft :
                          /\ FixedElementList(ft)
                          /\ (offs[k + 1] - offs[k]) % FixedSize(Elem(ft)) # 0)}}))

\* C22: when a list of fixed-size elements, at the top or as a field of a struct,
\* is decoded from bytes whose number is no multiple of the element's size,
\* Unmarshal returns an error: it does not succeed with the remainder ignored.
C22_MisalignedRejected ==
    (Decoded /\ dec.ran /\ ~dst.untyped /\ ~dst.self /\ dst.t.k = "ptr"
        /\ MisalignedSlices # {})
        => dec.err \notin {"", "panic"}
\* A list field of 2-byte elements was decoded from 3 bytes.
C22_Witness ==
    /\ Decoded /\ dec.ran /\ dst = FreshDest(wordList)
    /\ MisalignedSlices = {3}

\* Two writes share a byte.
Overlap(a, b) == a.n > 0 /\ b.n > 0 /\ a.at < b.at + b.n /\ b.at < a.at + a.n
InsideBuffer(w, size) == 0 <= w.at /\ w.at + w.n <= size
\* A write against a struct it was made in: the bytes of a fixed-size field and
\* the offsets inside the fixed part, the bytes of a variable-size field behind
\* it, and the fixed part written up to its end when the fields are done.
InsideRegion(w, f) ==
    CASE f.region \in {"fixed", "offset"} -> f.start <= w.at /\ w.at + w.n <= f.fixedEnd
      [] f.region = "variable" -> w.at >= f.fixedEnd
      [] f.region = "end" -> w.at = f.fixedEnd
      [] OTHER -> TRUE
WritesInPlace(result) ==
    \A i \in 1..Len(result.log) :
        /\ InsideBuffer(result.log[i], result.size)
        /\ \A k \in 1..Len(result.log[i].frames) :
               InsideRegion(result.log[i], result.log[i].frames[k])
        /\ \A j \in 1..(i - 1) : ~Overlap(result.log[j], result.log[i])

\* C23: every write of a Marshal call lands inside the buffer; in a struct the
\* fixed-size fields and the offsets are written inside the fixed part, which is
\* written up to its end, the variable-size fields behind it; and no byte is
\* written twice.
C23_WritesInPlace ==
    /\ (origin = "value" /\ pc # "marshal" /\ enc.ran) => WritesInPlace(enc)
    /\ (pc = "done" /\ re.ran) => WritesInPlace(re)

\* Unmarshal accepted the input for a destination that held data.
HeldAccepted == origin = "held" /\ Decoded /\ dec.ran /\ dec.err = ""
\* The destination is afterwards what any other destination of the type that
\* accepts the input is, nil lists and empty lists taken as the same.
SameAsFrom(d2) ==
    With(Unmarshal(input, d2, NoMethod), LAMBDA r :
         r.err = "" => Norm(dst.t, r.d) = Norm(dst.t, dec.d))

\* C24: for an input Unmarshal accepts, the destination afterwards does not
\* depend on what it held before: it is what a fresh destination, or one holding
\* other data, becomes when it accepts the same input.
C24_NoLeak ==
    HeldAccepted =>
        \A d2 \in HeldDests(Elem(dst.t)) \cup {FreshDest(Elem(dst.t))} : SameAsFrom(d2)
====
